---- MODULE Spec2Model ----
(***************************************************************************)
(* Model of the test-execution engine of api_test_platform:               *)
(*   apps/core/executor.py  (variable store, substitution, execute_api,   *)
(*                           execute_batch)                               *)
(*   apps/core/views.py     (api_run_single, api_run_batch)               *)
(*   apps/core/scheduler.py (start, job registry, trigger_task_now,       *)
(*                           run_task)                                    *)
(*   apps/core/views.py     (scheduled-task requests)                     *)
(* Strings are sequences of tokens (a literal piece or a {{name}}         *)
(* placeholder); JSON values are tagged records.  Collaborators (Redis,   *)
(* SQL, the HTTP server) answer nondeterministically.                     *)
(***************************************************************************)
EXTENDS Integers, Sequences, FiniteSets, TLC

VARIABLES
    runtime_vars,   \* executor._runtime_vars: name -> value
    session_store,  \* executor._session_store: api id -> "open" | "closed"
    global_vars,    \* GlobalVariable rows: name -> value
    apis,           \* ApiConfig rows: id -> configuration
    reports,        \* TestReport rows, indexed by id (1..Len)
    results,        \* TestResult rows, in insertion order
    pc,             \* per thread: position in execute_batch / api_run_single / execute_api
    frame,          \* per thread: locals of the caller (execute_batch or api_run_single)
    loc,            \* per thread: locals of the running execute_api
    budget,         \* top-level invocations the environment may still start
    closed_sessions, \* api ids whose stored session reset_runtime_vars has closed
    _scheduler,     \* scheduler._scheduler: 0 (None) or an index into instances
    instances,      \* the BackgroundScheduler objects created: running flag, job store
    scheduled_tasks, \* ScheduledTask rows: id -> row, or Null when there is none
    runs,           \* run_task executions submitted so far, in submission order
    starting,       \* per caller of scheduler.start(): its position in start()
    timers,         \* threading.Timer objects started and not yet fired
    loads,          \* number of _load_all_tasks calls that have run
    mails,          \* send_report_email calls: the ids of the reports sent
    now,            \* int(time.time())
    calls,          \* number of trigger_task_now calls made
    fn,             \* a call of a pure function: its arguments and results
    _tasks,         \* locust_runner._tasks: task id -> the info start_locust stored
    procs,          \* the worker child processes: position in the script, exit code
    work_dir,       \* per task: status.json, result.json and the log file
    reply,          \* what the last call of a service function returned
    _batch_tasks    \* executor._batch_tasks: the registry of the batches of POST /run/batch

\* the state of scheduler.py and of the ScheduledTask table
sched_vars == <<_scheduler, instances, scheduled_tasks, runs, starting, timers,
                loads, mails, now, calls>>

\* the state no step of the executor changes
\* the state of locust_runner.py, of its child processes and of its files
load_vars == <<_tasks, procs, work_dir, reply>>

aux_vars == <<sched_vars, fn, load_vars, _batch_tasks>>

vars == <<runtime_vars, session_store, global_vars, apis, reports, results,
          pc, frame, loc, budget, closed_sessions, aux_vars>>

-----------------------------------------------------------------------------
(* Strings and JSON values                                                 *)

Lit(s) == [k |-> "lit", s |-> s, pad |-> FALSE]
\* "{{name}}"; pad = TRUE is "{{ name }}" (the name is stripped before lookup)
Ph(n) == [k |-> "ph", s |-> n, pad |-> FALSE]
PhPad(n) == [k |-> "ph", s |-> n, pad |-> TRUE]

Str(text) == [t |-> "str", v |-> text]
Num(n) == [t |-> "num", v |-> n]
Null == [t |-> "null"]
Map(f) == [t |-> "map", v |-> f]
List(s) == [t |-> "list", v |-> s]

EmptyMap == [x \in {} |-> Null]
Put(m, key, val) == [x \in (DOMAIN m) \cup {key} |-> IF x = key THEN val ELSE m[x]]
\* dict.update: entries of b win
Update(a, b) == [x \in (DOMAIN a) \cup (DOMAIN b) |-> IF x \in DOMAIN b THEN b[x] ELSE a[x]]

\* str(value) for the value kinds the store can hold
StrOf(val) ==
    IF val.t = "str" THEN val.v
    ELSE IF val.t = "num" THEN <<Lit(ToString(val.v))>>
    ELSE IF val.t = "null" THEN <<Lit("None")>>
    ELSE <<Lit("<repr>")>>

RECURSIVE Concat(_)
Concat(ss) == IF ss = <<>> THEN <<>> ELSE Head(ss) \o Concat(Tail(ss))

\* executor._replace_vars: every {{name}} whose stripped name is a key of
\* variables becomes str(variables[name]); any other placeholder is kept.
_replace_vars(text, variables) ==
    IF text = <<>> THEN text
    ELSE Concat([i \in 1..Len(text) |->
            IF text[i].k = "ph" /\ text[i].s \in DOMAIN variables
            THEN StrOf(variables[text[i].s])
            ELSE <<text[i]>>])

\* executor.replace_vars_in_dict
RECURSIVE replace_vars_in_dict(_, _)
replace_vars_in_dict(data, variables) ==
    IF data.t = "str" THEN Str(_replace_vars(data.v, variables))
    ELSE IF data.t # "map" THEN data
    ELSE Map([key \in DOMAIN data.v |->
            LET v == data.v[key] IN
            IF v.t = "str" THEN Str(_replace_vars(v.v, variables))
            ELSE IF v.t = "map" THEN replace_vars_in_dict(v, variables)
            ELSE IF v.t = "list"
                 THEN List([i \in 1..Len(v.v) |->
                        IF v.v[i].t = "str"
                        THEN Str(_replace_vars(v.v[i].v, variables))
                        ELSE v.v[i]])
            ELSE v])

replace_vars_in_sql(sql, variables) == _replace_vars(sql, variables)

\* int(p) for the index parts a path can carry
IndexOf == ("0" :> 1) @@ ("1" :> 2)

\* executor.extract_value, the path already split into its non-empty parts:
\* a part keys a map or indexes a list, any failure gives null.
RECURSIVE extract_value(_, _)
extract_value(data, path) ==
    IF path = <<>> THEN data
    ELSE IF data.t = "map"
         THEN IF Head(path) \in DOMAIN data.v
              THEN extract_value(data.v[Head(path)], Tail(path))
              ELSE Null
    ELSE IF data.t = "list" /\ Head(path) \in DOMAIN IndexOf
         THEN IF IndexOf[Head(path)] \in DOMAIN data.v
              THEN extract_value(data.v[IndexOf[Head(path)]], Tail(path))
              ELSE Null
    ELSE Null

\* executor.load_global_vars: persisted globals, runtime entries on top
load_global_vars == Update(global_vars, runtime_vars)

-----------------------------------------------------------------------------
(* Encryption (executor.encrypt_gcm / encrypt_body / apply_body_enc_rules)  *)

\* json.dumps(x): the JSON text of x, a string
Dumps(x) == [t |-> "json", v |-> x]
Cipher(algo, key, plain) == [t |-> "cipher", algo |-> algo, key |-> key, plain |-> plain]

Algorithms == {"AES-GCM", "BASE64", "MD5", "AES"}

\* executor.encrypt_body: an unknown algorithm falls through to "return body"
encrypt_body(bs, algorithm, key) ==
    IF algorithm \in Algorithms THEN Cipher(algorithm, key, bs) ELSE bs

\* one rule of apply_body_enc_rules applied to the result map built so far
EncRuleStep(result, rule, default_raw, variables) ==
    LET raw == IF rule.raw # "" THEN rule.raw ELSE default_raw
        ssrc_str == _replace_vars(rule.ssrc, variables)
    IN IF rule.field = "" \/ rule.ssrc = <<>> THEN result
       ELSE IF raw = "" THEN result
       ELSE Put(result, rule.field,
                Cipher("AES-GCM", raw,
                       IF rule.json_dumps THEN Dumps(Str(ssrc_str)) ELSE Str(ssrc_str)))

RECURSIVE EncRules(_, _, _, _)
EncRules(result, rules, default_raw, variables) ==
    IF rules = <<>> THEN result
    ELSE EncRules(EncRuleStep(result, Head(rules), default_raw, variables),
                  Tail(rules), default_raw, variables)

\* executor.apply_body_enc_rules on well-formed rules: a body that is no map
\* starts from the empty map
apply_body_enc_rules(body, rules, default_raw, variables) ==
    IF rules = <<>> THEN body
    ELSE Map(EncRules(IF body.t = "map" THEN body.v ELSE EmptyMap,
                      rules, default_raw, variables))

-----------------------------------------------------------------------------
(* Assertion evaluators                                                    *)

All(bs) == \A i \in DOMAIN bs : bs[i]

\* one rule of executor.run_assertions; a rule that is no map raises inside
\* the loop's try and is recorded as not passed, like an unknown type
AssertOne(rule, response_status, response_data) ==
    IF ~rule.wf THEN FALSE
    ELSE IF rule.type = "status_code"
         THEN StrOf(Num(response_status)) = StrOf(rule.expected)
    ELSE IF rule.type = "json_path"
         THEN StrOf(extract_value(response_data, rule.path)) = StrOf(rule.expected)
    ELSE IF rule.type = "not_empty"
         THEN LET actual == extract_value(response_data, rule.path)
              IN actual # Null /\ actual # Str(<<>>) /\ actual # List(<<>>)
                 /\ actual # Map(EmptyMap)
    ELSE FALSE

run_assertions(assertions, response_status, response_data) ==
    [i \in 1..Len(assertions) |-> AssertOne(assertions[i], response_status, response_data)]

\* executor.run_deepdiff_assertions on well-formed rules, no ignore_fields
run_deepdiff_assertions(rules, response_data) ==
    [i \in 1..Len(rules) |->
        rules[i].expected =
            (IF rules[i].check_path # <<>>
             THEN extract_value(response_data, rules[i].check_path)
             ELSE response_data)]

\* db_utils.OPERATORS on the operators the configurations use
Operate(operator, actual, expected) ==
    IF operator = "!=" THEN StrOf(actual) # expected
    ELSE IF operator = "not_empty"
         THEN StrOf(actual) # <<>> /\ StrOf(actual) # <<Lit("0")>>
    ELSE StrOf(actual) = expected

\* one rule of db_utils.run_db_assertions; answer is what the database gives:
\* k = "conn_err" (unknown config or connection failure), "sql_err", or "row"
\* with the first row (Null when the query returns none)
DbAssertOne(rule, answer) ==
    IF rule.db_id = 0 \/ rule.sql = <<>> THEN FALSE
    ELSE IF answer.k # "row" THEN FALSE
    ELSE LET row == answer.row
             actual == IF row = Null THEN Null
                       ELSE IF rule.field \in DOMAIN row.v THEN row.v[rule.field]
                       ELSE Null
         IN IF actual = Null THEN FALSE
            ELSE Operate(rule.operator, actual, rule.expected)

run_db_assertions(rules, answers) ==
    [i \in 1..Len(rules) |-> DbAssertOne(rules[i], answers[i])]

\* execute_api._replace_db_rules
_replace_db_rules(rules, variables) ==
    [i \in 1..Len(rules) |->
        [rules[i] EXCEPT !.sql = _replace_vars(@, variables),
                         !.expected = _replace_vars(@, variables)]]

\* a JSON rule list holds an element that is no map (rule.get raises)
Malformed(rules) == \E i \in DOMAIN rules : ~rules[i].wf

-----------------------------------------------------------------------------
(* ApiConfig rows                                                          *)

T(s) == <<Lit(s)>>

ExtractRule(name, path) == [wf |-> TRUE, name |-> name, path |-> path]
RedisRule(var_name, extract_field) ==
    [wf |-> TRUE, redis_id |-> 1, key |-> <<Lit("sms:"), Ph("mobile")>>,
     var_name |-> var_name, extract_field |-> extract_field]
StatusRule(code) == [wf |-> TRUE, type |-> "status_code", expected |-> Num(code)]
JsonPathRule(path, expected) ==
    [wf |-> TRUE, type |-> "json_path", path |-> path, expected |-> expected]
DiffRule(expected, check_path) ==
    [wf |-> TRUE, expected |-> expected, check_path |-> check_path]
DbRule(sql, field, operator, expected) ==
    [wf |-> TRUE, db_id |-> 1, sql |-> sql, field |-> field,
     operator |-> operator, expected |-> expected]
EncRule(field, ssrc) ==
    [wf |-> TRUE, field |-> field, ssrc |-> ssrc, raw |-> "", json_dumps |-> FALSE]
NotAMap == [wf |-> FALSE]

\* the column defaults of models.ApiConfig
DefaultApi ==
    [sort_order |-> 0, url |-> T("http://h/v"), headers |-> Map(EmptyMap),
     params |-> Map(EmptyMap), body |-> Map(EmptyMap), body_type |-> "json",
     use_async |-> FALSE, use_session |-> FALSE,
     pre_redis_rules |-> <<>>, body_enc_rules |-> <<>>,
     encrypted |-> FALSE, encryption_key |-> "", encryption_algorithm |-> "AES",
     pre_sql |-> <<>>, pre_sql_db_id |-> 0, post_sql |-> <<>>, post_sql_db_id |-> 0,
     extract_vars |-> <<>>, assertions |-> <<>>, deepdiff_assertions |-> <<>>,
     db_assertions |-> <<>>, repeat_enabled |-> FALSE, repeat_count |-> 1]

-----------------------------------------------------------------------------
(* What the collaborators can answer                                       *)

TokenBody(tok) == Dumps(Map("data" :> Map("token" :> Str(T(tok)))))

\* (status, body text) pairs of the server under test
Responses ==
    {[status |-> 200, body |-> TokenBody("T1")],
     [status |-> 200, body |-> Dumps(Map(EmptyMap))],
     [status |-> 500, body |-> Str(T("oops"))]}

\* json.loads(response_body), the raw text when it is no JSON
ParseBody(body) == IF body.t = "json" THEN body.v ELSE body

\* the string client.get(real_key) returns: plain text, or a JSON object text
RedisText(text) == [text |-> text, obj |-> Null]
RedisJson(code) == [text |-> T("<json>"), obj |-> Map("code" :> Num(code))]
RedisAnswers ==
    {[k |-> "error"], [k |-> "none"],
     [k |-> "value", raw |-> RedisText(T("1234"))],
     [k |-> "value", raw |-> RedisJson(9)]}

\* execute_sql_statements returns its result map, or raises
SqlAnswers == {"ok", "raise"}

DbAnswers ==
    {[k |-> "conn_err"], [k |-> "sql_err"], [k |-> "row", row |-> Null],
     [k |-> "row", row |-> Map("cnt" :> Num(1))]}

\* len(str(e)) of the exceptions a dispatch can raise
SliceLimit == 400
ExcLens == {0, 12, SliceLimit + 1}
\* len of f'同步請求超時 ({timeout}s)' for a one-digit timeout
TimeoutMsgLen == 11

Min(a, b) == IF a < b THEN a ELSE b
Max(a, b) == IF a > b THEN a ELSE b

-----------------------------------------------------------------------------
(* State                                                                   *)

Threads == {1, 2}

IdleLoc ==
    [api |-> 0, variables |-> EmptyMap, i |-> 1,
     url |-> <<>>, headers |-> Null, params |-> Null, body |-> Null,
     body_type |-> "", request_body_raw |-> Null, encrypted_body |-> Null,
     pre_redis_log |-> <<>>, pre_sql_sent |-> <<>>, pre_sql_result |-> "",
     sent |-> Null, error_message |-> 0, response_status |-> 0,
     response_data |-> Null, extracted |-> EmptyMap,
     assertion_results |-> <<>>, all_http_ok |-> TRUE,
     deepdiff_results |-> <<>>, all_dd_ok |-> TRUE,
     post_sql_sent |-> <<>>, post_sql_result |-> "",
     db_rules_sent |-> <<>>, db_assertion_results |-> <<>>, all_db_ok |-> TRUE,
     status |-> "", stages |-> <<>>, raised |-> FALSE, exc |-> "none"]

IdleFrame ==
    [kind |-> "none", api_ids |-> <<>>, stop_on_failure |-> FALSE,
     queue |-> <<>>, idx |-> 1, report |-> 0,
     passed |-> 0, failed |-> 0, error |-> 0,
     extra_vars |-> EmptyMap, repeat_count |-> 1, results_list |-> <<>>, saved |-> 0,
     wrote |-> EmptyMap, snapshot |-> Null, task_id |-> 0]

Cfg(self) == apis[loc[self].api]

\* the state the executor's steps leave alone when they publish to the registry
quiet_vars == <<sched_vars, fn, load_vars>>

\* the registry after a batch has published its progress, its end or its
\* failure; a batch started without task_id (0) publishes nothing
publish_progress(task_id, progress, total) ==
    IF task_id = 0 THEN _batch_tasks
    ELSE [_batch_tasks EXCEPT ![task_id].progress = progress, ![task_id].total = total]

publish_final(task_id, report_id) ==
    IF task_id = 0 THEN _batch_tasks
    ELSE [_batch_tasks EXCEPT ![task_id].status = "completed",
                              ![task_id].report_id = report_id]

publish_error(task_id, text) ==
    IF task_id = 0 THEN _batch_tasks
    ELSE [_batch_tasks EXCEPT ![task_id].status = "error", ![task_id].error = text]

\* the order of the stages of execute_api (lines 552-752, top to bottom)
StageOrder ==
    <<"ea_load", "ea_redis", "ea_subst", "ea_fenc", "ea_wenc", "ea_presql", "ea_http",
      "ea_extract", "ea_assert", "ea_postsql", "ea_dbassert", "ea_final">>

PosIn(seq, x) == CHOOSE i \in 1..Len(seq) : seq[i] = x

StageAfter_post_sql_early(p) ==
    LET order == <<"ea_load", "ea_redis", "ea_subst", "ea_fenc", "ea_wenc", "ea_presql",
                   "ea_http", "ea_postsql", "ea_extract", "ea_assert", "ea_dbassert",
                   "ea_final">>
    IN order[PosIn(order, p) + 1]
StageAfter(p) == StageOrder[PosIn(StageOrder, p) + 1]

\* the stage at pc is over: go on with the next one
Advance(self, l) ==
    /\ loc' = [loc EXCEPT ![self] = [l EXCEPT !.i = 1]]
    /\ pc' = [pc EXCEPT ![self] = StageAfter(pc[self])]

\* an exception leaves execute_api
Raise(self, l) ==
    /\ loc' = [loc EXCEPT ![self] = [l EXCEPT !.raised = TRUE]]
    /\ pc' = [pc EXCEPT ![self] = "ea_raised"]

Stage(l, name) == [l EXCEPT !.stages = Append(@, name)]

-----------------------------------------------------------------------------
(* execute_api, stage by stage                                             *)

\* lines 552-554: variables = load_global_vars(); variables.update(extra_vars)
\* (frame.snapshot remembers the variables of the first iteration of a single run)
ea_load(self) ==
    /\ pc[self] = "ea_load"
    /\ LET variables == Update(load_global_vars, frame[self].extra_vars)
       IN /\ Advance(self, [loc[self] EXCEPT !.variables = variables])
          /\ frame' = IF frame[self].kind = "single" /\ frame[self].results_list = <<>>
                       THEN [frame EXCEPT ![self].snapshot = variables]
                       ELSE frame
    /\ UNCHANGED <<closed_sessions, aux_vars>>
    /\ UNCHANGED <<runtime_vars, session_store, global_vars, apis, reports, results,
                   budget>>

\* the value a pre-Redis rule stores for what Redis returned (lines 582-590)
RedisValue(rule, raw) ==
    IF rule.extract_field # "" /\ raw.obj # Null /\ rule.extract_field \in DOMAIN raw.obj.v
    THEN StrOf(raw.obj.v[rule.extract_field])
    ELSE raw.text

\* lines 556-595, one rule per step
ea_redis(self) ==
    /\ pc[self] = "ea_redis"
    /\ UNCHANGED <<closed_sessions, aux_vars>>
    /\ UNCHANGED <<session_store, global_vars, apis, reports, results, frame, budget>>
    /\ LET l == loc[self]
           rules == Cfg(self).pre_redis_rules
       IN IF l.i > Len(rules)
          THEN Advance(self, l) /\ UNCHANGED runtime_vars
          ELSE LET rule == rules[l.i]
                   next == [l EXCEPT !.i = @ + 1]
               IN IF ~rule.wf
                  THEN Raise(self, l) /\ UNCHANGED <<runtime_vars>>
                  ELSE IF rule.redis_id = 0 \/ rule.key = <<>> \/ rule.var_name = ""
                  THEN /\ loc' = [loc EXCEPT ![self] = next]
                       /\ UNCHANGED <<pc, runtime_vars>>
                  ELSE \E ans \in RedisAnswers :
                        LET real_key == _replace_vars(rule.key, l.variables)
                            val == IF ans.k = "value" THEN RedisValue(rule, ans.raw) ELSE <<>>
                            entry == [key |-> real_key, var_name |-> rule.var_name,
                                      success |-> ans.k = "value", value |-> val]
                            logged == Stage([next EXCEPT !.pre_redis_log = Append(@, entry)],
                                            "pre_redis")
                        IN /\ UNCHANGED pc
                           /\ IF ans.k = "value"
                              THEN /\ loc' = [loc EXCEPT ![self] =
                                        [logged EXCEPT !.variables =
                                            Put(@, rule.var_name, Str(val))]]
                                   /\ runtime_vars' = Put(runtime_vars, rule.var_name, Str(val))
                              ELSE /\ loc' = [loc EXCEPT ![self] = logged]
                                   /\ UNCHANGED runtime_vars

\* lines 597-605
ea_subst(self) ==
    /\ pc[self] = "ea_subst"
    /\ LET l == loc[self]
           c == Cfg(self)
       IN Advance(self, Stage([l EXCEPT
                !.url = _replace_vars(c.url, l.variables),
                !.headers = replace_vars_in_dict(c.headers, l.variables),
                !.params = replace_vars_in_dict(c.params, l.variables),
                !.body = replace_vars_in_dict(c.body, l.variables),
                !.body_type = IF c.body_type = "" THEN "json" ELSE c.body_type], "subst"))
    /\ UNCHANGED <<closed_sessions, aux_vars>>
    /\ UNCHANGED <<runtime_vars, session_store, global_vars, apis, reports, results,
                   frame, budget>>

\* lines 607-614
ea_fenc(self) ==
    /\ pc[self] = "ea_fenc"
    /\ LET l == loc[self]
           c == Cfg(self)
       IN IF c.body_enc_rules = <<>> THEN Advance(self, l)
          ELSE IF Malformed(c.body_enc_rules) THEN Raise(self, l)
          ELSE Advance(self, Stage([l EXCEPT !.body =
                    apply_body_enc_rules(l.body, c.body_enc_rules, c.encryption_key,
                                         l.variables)], "field_enc"))
    /\ UNCHANGED <<closed_sessions, aux_vars>>
    /\ UNCHANGED <<runtime_vars, session_store, global_vars, apis, reports, results,
                   frame, budget>>

\* bs of line 620
Serialize(body) ==
    IF body.t \in {"map", "list"} THEN Dumps(body)
    ELSE IF body.t = "null" THEN Str(<<>>)
    ELSE body

\* line 619: whole-body encryption applies only without field-level rules
whole_body_encrypted_despite_rules(c) == c.encrypted /\ c.encryption_key # ""
whole_body_encrypted(c) ==
    c.encrypted /\ c.encryption_key # "" /\ c.body_enc_rules = <<>>

\* lines 616-631
ea_wenc(self) ==
    /\ pc[self] = "ea_wenc"
    /\ LET l == [loc[self] EXCEPT !.request_body_raw = loc[self].body]
           c == Cfg(self)
           encrypted_body == encrypt_body(Serialize(l.body), c.encryption_algorithm,
                                          c.encryption_key)
       IN IF whole_body_encrypted(c)
          THEN IF l.body_type \in {"text", "data", "raw"}
               THEN Advance(self, Stage([l EXCEPT !.encrypted_body = encrypted_body,
                                                  !.body = encrypted_body], "whole_enc"))
               ELSE Advance(self, Stage([l EXCEPT !.encrypted_body = encrypted_body,
                                                  !.body = Map("encrypted" :> encrypted_body),
                                                  !.body_type = "json"], "whole_enc"))
          ELSE Advance(self, l)
    /\ UNCHANGED <<closed_sessions, aux_vars>>
    /\ UNCHANGED <<runtime_vars, session_store, global_vars, apis, reports, results,
                   frame, budget>>

\* lines 633-640: a raising execute_sql_statements is caught and recorded
ea_presql(self) ==
    /\ pc[self] = "ea_presql"
    /\ LET l == loc[self]
           c == Cfg(self)
       IN IF c.pre_sql # <<>> /\ c.pre_sql_db_id # 0
          THEN \E ans \in SqlAnswers :
                Advance(self, Stage([l EXCEPT
                    !.pre_sql_sent = replace_vars_in_sql(c.pre_sql, l.variables),
                    !.pre_sql_result = ans], "pre_sql"))
          ELSE Advance(self, l)
    /\ UNCHANGED <<closed_sessions, aux_vars>>
    /\ UNCHANGED <<runtime_vars, session_store, global_vars, apis, reports, results,
                   frame, budget>>

\* executor._get_session under _session_lock: one session per api id
_get_session(store, api_id) ==
    IF api_id \in DOMAIN store THEN store ELSE Put(store, api_id, "open")

\* lines 642-668: dispatch and response parsing
ea_http(self) ==
    /\ pc[self] = "ea_http"
    /\ LET c == Cfg(self)
           l == Stage([loc[self] EXCEPT !.sent =
                    [url |-> loc[self].url, headers |-> loc[self].headers,
                     params |-> loc[self].params, body |-> loc[self].body,
                     body_type |-> loc[self].body_type]], "http")
       IN /\ session_store' =
                IF ~c.use_async /\ c.use_session /\ l.api # 0
                THEN _get_session(session_store, l.api) ELSE session_store
          /\ \/ \E r \in Responses :
                    Advance(self, Stage([l EXCEPT !.response_status = r.status,
                                                  !.response_data = ParseBody(r.body)],
                                        "parse"))
             \/ Advance(self, [l EXCEPT !.exc = "timeout", !.error_message = TimeoutMsgLen])
             \/ \E n \in ExcLens :
                    Advance(self, [l EXCEPT !.exc = "exception",
                                            !.error_message = Min(n, SliceLimit)])
    /\ UNCHANGED <<closed_sessions, aux_vars>>
    /\ UNCHANGED <<runtime_vars, global_vars, apis, reports, results, frame, budget>>

\* lines 670-680, one rule per step; set_runtime_var is one locked write
ea_extract(self) ==
    /\ pc[self] = "ea_extract"
    /\ UNCHANGED <<closed_sessions, aux_vars>>
    /\ UNCHANGED <<session_store, global_vars, apis, reports, results, frame, budget>>
    /\ LET l == loc[self]
           rules == Cfg(self).extract_vars
       IN IF l.response_data = Null \/ l.error_message # 0 \/ l.i > Len(rules)
          THEN Advance(self, l) /\ UNCHANGED runtime_vars
          ELSE LET rule == rules[l.i]
                   next == Stage([l EXCEPT !.i = @ + 1], "extract")
                   val == extract_value(l.response_data, rule.path)
               IN IF ~rule.wf
                  THEN Raise(self, l) /\ UNCHANGED runtime_vars
                  ELSE IF rule.name # "" /\ rule.path # <<>> /\ val # Null
                  THEN /\ loc' = [loc EXCEPT ![self] =
                            [next EXCEPT !.extracted = Put(@, rule.name, val),
                                         !.variables = Put(@, rule.name, val)]]
                       /\ runtime_vars' = Put(runtime_vars, rule.name, val)
                       /\ UNCHANGED pc
                  ELSE /\ loc' = [loc EXCEPT ![self] = next]
                       /\ UNCHANGED <<pc, runtime_vars>>

\* lines 682-693: HTTP assertions, then the structural-diff assertions
ea_assert(self) ==
    /\ pc[self] = "ea_assert"
    /\ LET l == loc[self]
           c == Cfg(self)
           l1 == IF c.assertions # <<>> /\ l.error_message = 0
                 THEN LET rs == run_assertions(c.assertions, l.response_status,
                                               l.response_data)
                      IN Stage([l EXCEPT !.assertion_results = rs,
                                         !.all_http_ok = All(rs)], "http_assert")
                 ELSE l
       IN IF c.deepdiff_assertions # <<>> /\ l.error_message = 0
          THEN IF Malformed(c.deepdiff_assertions) THEN Raise(self, l1)
               ELSE LET ds == run_deepdiff_assertions(c.deepdiff_assertions,
                                                      l.response_data)
                    IN Advance(self, Stage([l1 EXCEPT !.deepdiff_results = ds,
                                                      !.all_dd_ok = All(ds)], "dd_assert"))
          ELSE Advance(self, l1)
    /\ UNCHANGED <<closed_sessions, aux_vars>>
    /\ UNCHANGED <<runtime_vars, session_store, global_vars, apis, reports, results,
                   frame, budget>>

\* lines 695-702
ea_postsql(self) ==
    /\ pc[self] = "ea_postsql"
    /\ LET l == loc[self]
           c == Cfg(self)
       IN IF c.post_sql # <<>> /\ c.post_sql_db_id # 0
          THEN \E ans \in SqlAnswers :
                Advance(self, Stage([l EXCEPT
                    !.post_sql_sent = replace_vars_in_sql(c.post_sql, l.variables),
                    !.post_sql_result = ans], "post_sql"))
          ELSE Advance(self, l)
    /\ UNCHANGED <<closed_sessions, aux_vars>>
    /\ UNCHANGED <<runtime_vars, session_store, global_vars, apis, reports, results,
                   frame, budget>>

\* lines 704-727
ea_dbassert(self) ==
    /\ pc[self] = "ea_dbassert"
    /\ LET l == loc[self]
           c == Cfg(self)
       IN IF c.db_assertions # <<>> /\ l.error_message = 0
          THEN IF Malformed(c.db_assertions) THEN Raise(self, l)
               ELSE \E answers \in [1..Len(c.db_assertions) -> DbAnswers] :
                      LET sent == _replace_db_rules(c.db_assertions, l.variables)
                          rs == run_db_assertions(sent, answers)
                      IN Advance(self, Stage([l EXCEPT !.db_rules_sent = sent,
                                                       !.db_assertion_results = rs,
                                                       !.all_db_ok = All(rs)], "db_assert"))
          ELSE Advance(self, l)
    /\ UNCHANGED <<closed_sessions, aux_vars>>
    /\ UNCHANGED <<runtime_vars, session_store, global_vars, apis, reports, results,
                   frame, budget>>

\* lines 729-735
FinalStatus_ignore_db(c, l) ==
    IF l.error_message # 0 THEN "error"
    ELSE IF c.assertions # <<>> \/ c.deepdiff_assertions # <<>> \/ c.db_assertions # <<>>
         THEN IF l.all_http_ok /\ l.all_dd_ok THEN "pass" ELSE "fail"
    ELSE IF 200 <= l.response_status /\ l.response_status < 300 THEN "pass" ELSE "fail"
FinalStatus(c, l) ==
    IF l.error_message # 0 THEN "error"
    ELSE IF c.assertions # <<>> \/ c.deepdiff_assertions # <<>> \/ c.db_assertions # <<>>
         THEN IF l.all_http_ok /\ l.all_dd_ok /\ l.all_db_ok THEN "pass" ELSE "fail"
    ELSE IF 200 <= l.response_status /\ l.response_status < 300 THEN "pass" ELSE "fail"

\* lines 729-752: the result map goes back to the caller
ea_final(self) ==
    /\ pc[self] = "ea_final"
    /\ loc' = [loc EXCEPT ![self] =
                [@ EXCEPT !.status = FinalStatus(Cfg(self), loc[self])]]
    /\ pc' = [pc EXCEPT ![self] = IF frame[self].kind = "batch" THEN "eb_persist"
                                  ELSE "rs_collect"]
    /\ UNCHANGED <<closed_sessions, aux_vars>>
    /\ UNCHANGED <<runtime_vars, session_store, global_vars, apis, reports, results,
                   frame, budget>>

\* the exception leaves the caller too: execute_batch and api_run_single have
\* no handler around execute_api (executor.py:768, views.py:558); the thread
\* of POST /run/batch catches it and marks its registry entry (views.py:671-675)
ea_raised(self) ==
    /\ pc[self] = "ea_raised"
    /\ pc' = [pc EXCEPT ![self] = "idle"]
    /\ frame' = [frame EXCEPT ![self] = IdleFrame]
    /\ loc' = [loc EXCEPT ![self] = IdleLoc]
    /\ _batch_tasks' = publish_error(frame[self].task_id, "exception")
    /\ UNCHANGED <<closed_sessions, quiet_vars>>
    /\ UNCHANGED <<runtime_vars, session_store, global_vars, apis, reports, results, budget>>

-----------------------------------------------------------------------------
(* execute_batch (executor.py:757-793)                                     *)

\* invocations started in a run of two scheduler workers (MaxRuns), and of one
\* request thread (MaxRequests)
MaxRuns == 2
MaxRequests == 1

\* ApiConfig.objects.filter(id__in=api_ids).order_by('sort_order', 'id')
Before(a, b) ==
    \/ apis[a].sort_order < apis[b].sort_order
    \/ apis[a].sort_order = apis[b].sort_order /\ a < b

RECURSIVE SortIds(_)
SortIds(S) ==
    IF S = {} THEN <<>>
    ELSE LET m == CHOOSE x \in S : \A y \in S \ {x} : Before(x, y)
         IN <<m>> \o SortIds(S \ {m})

Selected(api_ids) == {id \in DOMAIN apis : \E i \in DOMAIN api_ids : api_ids[i] = id}

order_by_argument(api_ids) == SelectSeq(api_ids, LAMBDA id : id \in DOMAIN apis)
order_by(api_ids) == SortIds(Selected(api_ids))

\* the TestResult row made of a result map (executor.py:769-786, views.py:579-598)
ResultRow(report, rd) ==
    [report |-> report, api |-> rd.api, status |-> rd.status]

StartBatch(self, api_ids, stop_on_failure) ==
    /\ pc[self] = "idle"
    /\ budget > 0
    /\ budget' = budget - 1
    /\ frame' = [frame EXCEPT ![self] =
                    [IdleFrame EXCEPT !.kind = "batch", !.api_ids = api_ids,
                                      !.stop_on_failure = stop_on_failure]]
    /\ pc' = [pc EXCEPT ![self] = "eb_reset_vars"]
    /\ UNCHANGED <<closed_sessions, aux_vars>>
    /\ UNCHANGED <<runtime_vars, session_store, global_vars, apis, reports, results, loc>>

\* reset_runtime_vars, first lock region (lines 36-37)
eb_reset_vars(self) ==
    /\ pc[self] = "eb_reset_vars"
    /\ runtime_vars' = EmptyMap
    /\ pc' = [pc EXCEPT ![self] = "eb_reset_sessions"]
    /\ UNCHANGED <<closed_sessions, aux_vars>>
    /\ UNCHANGED <<session_store, global_vars, apis, reports, results, frame, loc, budget>>

\* reset_runtime_vars, second lock region (lines 38-42): close all, clear
eb_reset_sessions(self) ==
    /\ pc[self] = "eb_reset_sessions"
    /\ session_store' = EmptyMap
    /\ closed_sessions' = closed_sessions \cup DOMAIN session_store
    /\ pc' = [pc EXCEPT ![self] = "eb_query"]
    /\ UNCHANGED aux_vars
    /\ UNCHANGED <<runtime_vars, global_vars, apis, reports, results, frame, loc, budget>>

\* lines 760-766
eb_query(self) ==
    /\ pc[self] = "eb_query"
    /\ LET queue == order_by(frame[self].api_ids)
       IN IF queue = <<>>
          THEN /\ pc' = [pc EXCEPT ![self] = "idle"]
               /\ frame' = [frame EXCEPT ![self] = IdleFrame]
               /\ UNCHANGED reports
          ELSE /\ reports' = Append(reports,
                    [kind |-> "batch", status |-> "running", total |-> Len(queue),
                     passed |-> 0, failed |-> 0, error |-> 0])
               /\ frame' = [frame EXCEPT ![self] =
                    [@ EXCEPT !.queue = queue, !.report = Len(reports) + 1]]
               /\ pc' = [pc EXCEPT ![self] = "eb_loop"]
    /\ UNCHANGED <<closed_sessions, aux_vars>>
    /\ UNCHANGED <<runtime_vars, session_store, global_vars, apis, results, loc, budget>>

\* lines 767-768: the next api of the queue enters execute_api
eb_loop(self) ==
    /\ pc[self] = "eb_loop"
    /\ LET f == frame[self]
       IN IF f.idx <= Len(f.queue)
          THEN /\ loc' = [loc EXCEPT ![self] = [IdleLoc EXCEPT !.api = f.queue[f.idx]]]
               /\ pc' = [pc EXCEPT ![self] = "ea_load"]
          ELSE /\ pc' = [pc EXCEPT ![self] = "eb_finalize"]
               /\ UNCHANGED loc
    /\ UNCHANGED <<closed_sessions, aux_vars>>
    /\ UNCHANGED <<runtime_vars, session_store, global_vars, apis, reports, results,
                   frame, budget>>

\* the early abort of the batch runner: spec 4.I, "if stop_on_failure and the
\* result is not pass, break early" (views.py:669 passes the flag)
BreakEarly(stop_on_failure, status) == stop_on_failure /\ status # "pass"

\* the runtime variables one execute_api run has written: the successful
\* pre-Redis rules (line 589), then the extracted values (line 679)
RECURSIVE RedisWrites(_)
RedisWrites(log) ==
    IF log = <<>> THEN EmptyMap
    ELSE LET e == log[Len(log)]
             before == RedisWrites(SubSeq(log, 1, Len(log) - 1))
         IN IF e.success THEN Put(before, e.var_name, Str(e.value)) ELSE before

Written(l) == Update(RedisWrites(l.pre_redis_log), l.extracted)

\* lines 769-789; wrote is a history of the batch's runtime writes; with a
\* task_id the progress is published (spec 4.I)
eb_persist(self) ==
    /\ pc[self] = "eb_persist"
    /\ LET f == frame[self]
           rd == loc[self]
       IN /\ results' = Append(results, ResultRow(f.report, rd))
          /\ frame' = [frame EXCEPT ![self] =
                [f EXCEPT !.idx = @ + 1,
                          !.wrote = Update(@, Written(rd)),
                          !.passed = IF rd.status = "pass" THEN @ + 1 ELSE @,
                          !.failed = IF rd.status = "fail" THEN @ + 1 ELSE @,
                          !.error = IF rd.status \notin {"pass", "fail"} THEN @ + 1 ELSE @]]
          /\ pc' = [pc EXCEPT ![self] =
                IF BreakEarly(f.stop_on_failure, rd.status) THEN "eb_finalize"
                ELSE "eb_loop"]
    /\ loc' = [loc EXCEPT ![self] = IdleLoc]
    /\ _batch_tasks' = publish_progress(frame[self].task_id, frame[self].idx,
                                        Len(frame[self].queue))
    /\ UNCHANGED <<closed_sessions, quiet_vars>>
    /\ UNCHANGED <<runtime_vars, session_store, global_vars, apis, reports, budget>>

\* lines 790-793: report.save() writes the row from the object made at line 764;
\* with a task_id the end is published (spec 4.I)
eb_finalize(self) ==
    /\ pc[self] = "eb_finalize"
    /\ LET f == frame[self]
       IN reports' = [reports EXCEPT ![f.report] =
                [@ EXCEPT !.passed = f.passed, !.failed = f.failed, !.error = f.error,
                          !.status = "completed"]]
    /\ pc' = [pc EXCEPT ![self] = "idle"]
    /\ frame' = [frame EXCEPT ![self] = IdleFrame]
    /\ _batch_tasks' = publish_final(frame[self].task_id, frame[self].report)
    /\ UNCHANGED <<closed_sessions, quiet_vars>>
    /\ UNCHANGED <<runtime_vars, session_store, global_vars, apis, results, loc, budget>>

-----------------------------------------------------------------------------
(* api_run_batch and api_batch_status (views.py:643-705)                   *)

\* the registry entry of a new batch (views.py:662-665)
NewTask(api_ids) ==
    [status |-> "running", progress |-> 0, total |-> Len(api_ids),
     report_id |-> 0, error |-> ""]

\* POST /run/batch: the entry is stored, then the thread that runs
\* execute_batch(api_ids, rep_name, stop_on_failure, task_id) is started
api_run_batch(self, api_ids, stop_on_failure) ==
    /\ pc[self] = "idle"
    /\ budget > 0
    /\ api_ids # <<>>
    /\ budget' = budget - 1
    /\ _batch_tasks' = Append(_batch_tasks, NewTask(api_ids))
    /\ frame' = [frame EXCEPT ![self] =
                    [IdleFrame EXCEPT !.kind = "batch", !.api_ids = api_ids,
                                      !.stop_on_failure = stop_on_failure,
                                      !.task_id = Len(_batch_tasks) + 1]]
    /\ pc' = [pc EXCEPT ![self] = "eb_reset_vars"]
    /\ UNCHANGED <<closed_sessions, quiet_vars>>
    /\ UNCHANGED <<runtime_vars, session_store, global_vars, apis, reports, results, loc>>

\* GET /run/batch/status/<task_id>
api_batch_status(task_id) ==
    /\ reply' = IF task_id \in DOMAIN _batch_tasks
                THEN [op |-> "batch_status", task_id |-> task_id, found |-> TRUE,
                      data |-> _batch_tasks[task_id]]
                ELSE [op |-> "batch_status", task_id |-> task_id, found |-> FALSE]
    /\ UNCHANGED <<runtime_vars, session_store, global_vars, apis, reports, results,
                   pc, frame, loc, budget, closed_sessions, sched_vars, fn,
                   _tasks, procs, work_dir, _batch_tasks>>

-----------------------------------------------------------------------------
(* api_run_single (views.py:539-636)                                       *)

RepeatMax == 100

\* line 551
RepeatCount(c) ==
    IF c.repeat_enabled
    THEN Max(1, Min(IF c.repeat_count = 0 THEN 1 ELSE c.repeat_count, RepeatMax))
    ELSE 1

RunSingle(self, pk, extra_vars) ==
    /\ pc[self] = "idle"
    /\ budget > 0
    /\ pk \in DOMAIN apis
    /\ budget' = budget - 1
    /\ frame' = [frame EXCEPT ![self] =
                    [IdleFrame EXCEPT !.kind = "single", !.api_ids = <<pk>>, !.extra_vars = extra_vars,
                                      !.repeat_count = RepeatCount(apis[pk])]]
    /\ pc' = [pc EXCEPT ![self] = "rs_loop"]
    /\ UNCHANGED <<closed_sessions, aux_vars>>
    /\ UNCHANGED <<runtime_vars, session_store, global_vars, apis, reports, results, loc>>

\* lines 557-558
rs_loop(self) ==
    /\ pc[self] = "rs_loop"
    /\ LET f == frame[self]
       IN IF Len(f.results_list) < f.repeat_count
          THEN /\ loc' = [loc EXCEPT ![self] = [IdleLoc EXCEPT !.api = f.api_ids[1]]]
               /\ pc' = [pc EXCEPT ![self] = "ea_load"]
          ELSE /\ pc' = [pc EXCEPT ![self] = "rs_report"]
               /\ UNCHANGED loc
    /\ UNCHANGED <<closed_sessions, aux_vars>>
    /\ UNCHANGED <<runtime_vars, session_store, global_vars, apis, reports, results,
                   frame, budget>>

\* lines 559-563
rs_collect(self) ==
    /\ pc[self] = "rs_collect"
    /\ LET f == frame[self]
           rd == loc[self]
       IN frame' = [frame EXCEPT ![self] =
                [f EXCEPT !.results_list = Append(@, ResultRow(0, rd)),
                          !.passed = IF rd.status = "pass" THEN @ + 1 ELSE @,
                          !.failed = IF rd.status = "fail" THEN @ + 1 ELSE @,
                          !.error = IF rd.status \notin {"pass", "fail"} THEN @ + 1 ELSE @]]
    /\ pc' = [pc EXCEPT ![self] = "rs_loop"]
    /\ loc' = [loc EXCEPT ![self] = IdleLoc]
    /\ UNCHANGED <<closed_sessions, aux_vars>>
    /\ UNCHANGED <<runtime_vars, session_store, global_vars, apis, reports, results, budget>>

\* lines 571-576: the report row is created with status completed
rs_report(self) ==
    /\ pc[self] = "rs_report"
    /\ LET f == frame[self]
       IN /\ reports' = Append(reports,
                [kind |-> "single", status |-> "completed", total |-> f.repeat_count,
                 passed |-> f.passed, failed |-> f.failed, error |-> f.error])
          /\ frame' = [frame EXCEPT ![self] = [f EXCEPT !.report = Len(reports) + 1]]
    /\ pc' = [pc EXCEPT ![self] = "rs_save"]
    /\ UNCHANGED <<closed_sessions, aux_vars>>
    /\ UNCHANGED <<runtime_vars, session_store, global_vars, apis, results, loc, budget>>

\* lines 578-598, one TestResult per step
rs_save(self) ==
    /\ pc[self] = "rs_save"
    /\ LET f == frame[self]
       IN IF f.saved < Len(f.results_list)
          THEN /\ results' = Append(results,
                    [f.results_list[f.saved + 1] EXCEPT !.report = f.report])
               /\ frame' = [frame EXCEPT ![self] = [f EXCEPT !.saved = @ + 1]]
               /\ UNCHANGED pc
          ELSE /\ pc' = [pc EXCEPT ![self] = "idle"]
               /\ frame' = [frame EXCEPT ![self] = IdleFrame]
               /\ UNCHANGED results
    /\ UNCHANGED <<closed_sessions, aux_vars>>
    /\ UNCHANGED <<runtime_vars, session_store, global_vars, apis, reports, loc, budget>>

-----------------------------------------------------------------------------
(* The ApiConfig tables and the three systems                              *)

\* execution order by (sort_order, id): 2 (login), 1 (uses the token), 3
ApiTable ==
    (1 :> [DefaultApi EXCEPT
            !.sort_order = 1,
            !.url = <<Lit("http://h/u/"), Ph("tok")>>,
            !.headers = Map("X-Auth" :> Str(<<Ph("tok")>>)),
            !.body = Map("t" :> Str(<<PhPad("tok")>>) @@ "c" :> Str(<<Ph("code")>>))])
    @@
    (2 :> [DefaultApi EXCEPT
            !.pre_redis_rules = <<RedisRule("code", "code")>>,
            !.extract_vars = <<ExtractRule("tok", <<"data", "token">>),
                               ExtractRule("uid", <<"data", "token">>)>>])
    @@
    (3 :> [DefaultApi EXCEPT
            !.sort_order = 1, !.use_session = TRUE,
            !.repeat_enabled = TRUE, !.repeat_count = 2])

\* the rows the scheduled tasks select: the login (no Redis rule) and its consumer
TaskTable ==
    (1 :> ApiTable[1]) @@ (2 :> [ApiTable[2] EXCEPT !.pre_redis_rules = <<>>])

\* ScheduledTask.api_ids of the enabled tasks
TaskArgs == {<<1, 2>>, <<9>>}

\* api_ids arguments: two orders of the same selection, and an unknown id
BatchArgs == {<<1, 2, 3>>, <<3, 1, 2>>, <<9>>}

ExtraVarsChoices == {EmptyMap, "tok" :> Str(T("X"))}

\* scheduler.py before start() is called (line 14), and an empty task table
InitScheduler ==
    /\ _scheduler = 0
    /\ instances = <<>>
    /\ scheduled_tasks = <<>>
    /\ runs = <<>>
    /\ starting = <<>>
    /\ timers = 0
    /\ loads = 0
    /\ mails = <<>>
    /\ now = 0
    /\ calls = 0

\* locust_runner.py after import (lines 18-19): no load test was started
InitLocust ==
    /\ _tasks = EmptyMap
    /\ procs = EmptyMap
    /\ work_dir = EmptyMap
    /\ reply = Null

\* the executor module after import, no request being served
InitExecutor ==
    /\ fn = Null
    /\ InitLocust
    /\ _batch_tasks = <<>>
    /\ closed_sessions = {}
    /\ session_store = EmptyMap
    /\ global_vars = ("mobile" :> Str(T("138")))
    /\ reports = <<>>
    /\ results = <<>>
    /\ pc = [t \in Threads |-> "idle"]
    /\ frame = [t \in Threads |-> IdleFrame]
    /\ loc = [t \in Threads |-> IdleLoc]

InitCommon == InitScheduler /\ InitExecutor

Pipeline(self) ==
    \/ ea_load(self)
    \/ ea_redis(self)
    \/ ea_subst(self)
    \/ ea_fenc(self)
    \/ ea_wenc(self)
    \/ ea_presql(self)
    \/ ea_http(self)
    \/ ea_extract(self)
    \/ ea_assert(self)
    \/ ea_postsql(self)
    \/ ea_dbassert(self)
    \/ ea_final(self)

Batch(self) ==
    \/ eb_reset_vars(self)
    \/ eb_reset_sessions(self)
    \/ eb_query(self)
    \/ eb_loop(self)
    \/ eb_persist(self)
    \/ eb_finalize(self)

Single(self) ==
    \/ rs_loop(self)
    \/ rs_collect(self)
    \/ rs_report(self)
    \/ rs_save(self)

\* Two workers of the scheduler's thread pool (scheduler.py:87-112), each in
\* run_task, which calls execute_batch(api_ids, report_name) (scheduler.py:47)
Init ==
    /\ InitCommon
    /\ runtime_vars = EmptyMap
    /\ apis = TaskTable
    /\ budget = MaxRuns

Next ==
    \E self \in Threads :
        \/ \E ids \in TaskArgs : StartBatch(self, ids, FALSE)
        \/ Pipeline(self)
        \/ Batch(self)

Spec == Init /\ [][Next]_vars

\* One request thread serving one POST /run/single of a row in repeat mode
\* that extracts a variable its url uses, of a row with repeat disabled, or
\* of a row in repeat mode whose extract_vars is a list of non-objects
RepeatTable ==
    (1 :> [ApiTable[2] EXCEPT
            !.pre_redis_rules = <<>>, !.url = <<Lit("http://h/u/"), Ph("tok")>>,
            !.repeat_enabled = TRUE, !.repeat_count = 2])
    @@ (2 :> [DefaultApi EXCEPT !.repeat_enabled = FALSE, !.repeat_count = 3])
    @@ (3 :> [DefaultApi EXCEPT !.extract_vars = <<NotAMap>>,
                                !.repeat_enabled = TRUE, !.repeat_count = 3])

InitRepeat ==
    /\ InitCommon
    /\ runtime_vars = EmptyMap
    /\ apis = RepeatTable
    /\ budget = MaxRequests

NextRepeat ==
    \/ \E pk \in DOMAIN RepeatTable, ev \in ExtraVarsChoices : RunSingle(1, pk, ev)
    \/ Pipeline(1)
    \/ ea_raised(1)
    \/ Single(1)

SpecRepeat == InitRepeat /\ [][NextRepeat]_vars

\* Two workers running batches of an API with a keyed session, in a process
\* where earlier runs have left a runtime variable and a stored session
LeftVars == "tok" :> Str(T("X"))
LeftSessions == 3 :> "open"

InitReset ==
    /\ InitScheduler
    /\ fn = Null
    /\ InitLocust
    /\ _batch_tasks = <<>>
    /\ closed_sessions = {}
    /\ runtime_vars = LeftVars
    /\ session_store = LeftSessions
    /\ global_vars = EmptyMap
    /\ apis = (3 :> ApiTable[3])
    /\ reports = <<>>
    /\ results = <<>>
    /\ pc = [t \in Threads |-> "idle"]
    /\ frame = [t \in Threads |-> IdleFrame]
    /\ loc = [t \in Threads |-> IdleLoc]
    /\ budget = MaxRuns

NextReset ==
    \E self \in Threads :
        \/ StartBatch(self, <<3>>, FALSE)
        \/ Pipeline(self)
        \/ Batch(self)

SpecReset == InitReset /\ [][NextReset]_vars

\* One thread serving one invocation: the thread of POST /run/batch
\* (views.py:667-677, which passes stop_on_failure) or a POST /run/single
InitBatch ==
    /\ InitCommon
    /\ runtime_vars = EmptyMap
    /\ apis = ApiTable
    /\ budget = MaxRequests

NextBatch ==
    \/ \E ids \in BatchArgs, sof \in BOOLEAN : StartBatch(1, ids, sof)
    \/ \E pk \in DOMAIN apis, ev \in ExtraVarsChoices : RunSingle(1, pk, ev)
    \/ Pipeline(1)
    \/ Batch(1)
    \/ Single(1)

SpecBatch == InitBatch /\ [][NextBatch]_vars

\* One request thread serving one POST /run/single of one ApiConfig row
FullApi ==
    [DefaultApi EXCEPT
        !.url = <<Lit("http://h/u/"), Ph("tok"), Lit("/"), Ph("code")>>,
        !.headers = Map("X-Auth" :> Str(<<Ph("tok")>>)),
        !.params = Map("c" :> Str(<<Ph("code")>>)),
        !.body = Map("t" :> Str(<<PhPad("tok")>>)),
        !.pre_redis_rules = <<RedisRule("code", "code")>>,
        !.encrypted = TRUE, !.encryption_key = "k1",
        !.pre_sql = <<Lit("delete "), Ph("code")>>, !.pre_sql_db_id = 1,
        !.post_sql = <<Lit("update "), Ph("newtok")>>, !.post_sql_db_id = 1,
        !.extract_vars = <<ExtractRule("newtok", <<"data", "token">>)>>]

FieldEncApi ==
    [DefaultApi EXCEPT
        !.body = Map("t" :> Str(<<Ph("tok")>>)),
        !.body_enc_rules = <<EncRule("sign", <<Ph("tok")>>)>>,
        !.body_type = "form",
        !.encrypted = TRUE, !.encryption_key = "k1"]

TextEncApi ==
    [DefaultApi EXCEPT
        !.body = Str(<<Lit("t="), Ph("tok")>>), !.body_type = "text",
        !.encrypted = TRUE, !.encryption_key = "k1", !.encryption_algorithm = "BASE64"]

HttpRuleSets ==
    {<<>>, <<StatusRule(200)>>,
     <<StatusRule(200), JsonPathRule(<<"data", "token">>, Str(T("T1")))>>,
     <<NotAMap>>}
DiffRuleSets ==
    {<<>>, <<DiffRule(Map("data" :> Map("token" :> Str(T("T1")))), <<>>)>>}
DbRuleSets ==
    {<<>>, <<DbRule(<<Lit("select "), Ph("newtok")>>, "cnt", "=", T("1"))>>}

\* rule lists whose JSON holds an element that is no object
MalformedApis ==
    {[DefaultApi EXCEPT !.pre_redis_rules = <<NotAMap>>],
     [DefaultApi EXCEPT !.body_enc_rules = <<NotAMap>>],
     [DefaultApi EXCEPT !.extract_vars = <<NotAMap>>],
     [DefaultApi EXCEPT !.deepdiff_assertions = <<NotAMap>>],
     [DefaultApi EXCEPT !.db_assertions = <<NotAMap>>]}

PipelineConfigs ==
    {[base EXCEPT !.assertions = h, !.deepdiff_assertions = d, !.db_assertions = b] :
        base \in {DefaultApi, FullApi, FieldEncApi, TextEncApi},
        h \in HttpRuleSets, d \in DiffRuleSets, b \in DbRuleSets}
    \cup MalformedApis

InitPipeline ==
    /\ InitCommon
    /\ runtime_vars \in {EmptyMap, "tok" :> Str(T("old"))}
    /\ apis \in {1 :> c : c \in PipelineConfigs}
    /\ budget = MaxRequests

NextPipeline ==
    \/ \E ev \in ExtraVarsChoices : RunSingle(1, 1, ev)
    \/ Pipeline(1)
    \/ ea_raised(1)
    \/ Single(1)

SpecPipeline == InitPipeline /\ [][NextPipeline]_vars

\* One thread running one batch to its end, over rows of which one has a
\* malformed extract list; the thread, once started, keeps running
FairTable ==
    (1 :> ApiTable[1]) @@ (2 :> ApiTable[2])
    @@ (4 :> [DefaultApi EXCEPT !.sort_order = 2, !.extract_vars = <<NotAMap>>])

FairArgs == {<<1, 2>>, <<2, 4>>, <<9>>}

InitFair ==
    /\ InitCommon
    /\ runtime_vars = EmptyMap
    /\ apis = FairTable
    /\ budget = MaxRequests

Running(self) == Pipeline(self) \/ Batch(self) \/ ea_raised(self)

NextFair ==
    \/ \E ids \in FairArgs : StartBatch(1, ids, FALSE)
    \/ Pipeline(1)
    \/ Batch(1)
    \/ ea_raised(1)

SpecFair == InitFair /\ [][NextFair]_vars /\ WF_vars(Running(1))

\* One batch thread at a time serving MaxRuns POST /run/batch requests, and
\* the status requests of the page that polls them
InitRegistry ==
    /\ InitCommon
    /\ runtime_vars = EmptyMap
    /\ apis = FairTable
    /\ budget = MaxRuns

NextRegistry ==
    \/ \E ids \in FairArgs, sof \in BOOLEAN : api_run_batch(1, ids, sof)
    \/ \E task_id \in 1..MaxRuns : api_batch_status(task_id)
    \/ Pipeline(1)
    \/ Batch(1)
    \/ ea_raised(1)

SpecRegistry == InitRegistry /\ [][NextRegistry]_vars

-----------------------------------------------------------------------------
(* The scheduler (scheduler.py) and the scheduled-task views                *)
(* (views.py:1198-1309).  A BackgroundScheduler is a running flag and a job *)
(* store (job id -> the trigger_task_now call that added it, 0 for a        *)
(* recurring job); its worker pool runs the submitted run_task executions.  *)

\* ThreadPoolExecutor(max_workers=5), scheduler.py:97
MaxWorkers == 5
\* job_defaults max_instances, scheduler.py:98
max_instances == 1
\* seconds the clock may advance
MaxClock == 1
\* ScheduledTask rows ever created
MaxTasks == 2

\* the executor's state, which no step of the scheduler changes but through
\* execute_batch
exec_vars == <<runtime_vars, session_store, global_vars, apis, results, pc, frame, loc,
               closed_sessions, fn, load_vars, _batch_tasks>>

\* callers of start(), schedulers they can create, jobs and executions
StartCallers == {1, 2}
InstanceIds == 1..Cardinality(StartCallers)
JobIds ==
    {<<"task", k>> : k \in 1..MaxTasks}
    \cup {<<"immediate", k, ts>> : k \in 1..MaxTasks, ts \in 0..MaxClock}
RunIds == 1..(2 * MaxWorkers)

Remove(m, key) == [x \in (DOMAIN m) \ {key} |-> m[x]]

\* scheduler.py:134
JobId(task_id) == <<"task", task_id>>
\* scheduler.py:226
ImmediateId(task_id, ts) == <<"immediate", task_id, ts>>

\* a row of ScheduledTask (models.py:414-447); cron_ok says whether APScheduler
\* accepts the trigger built from cron_expr / interval_secs
TaskRow(status, cron_ok, api_ids, send_email) ==
    [status |-> status, cron_ok |-> cron_ok, api_ids |-> api_ids,
     send_email |-> send_email, last_report_id |-> 0, last_result |-> ""]

Exists(task_id) ==
    task_id \in DOMAIN scheduled_tasks /\ scheduled_tasks[task_id] # Null

\* a run_task execution: the job that submitted it ("inline" for a direct
\* call), the scheduler whose pool runs it, the trigger_task_now call behind it
RunOf(task_id, job, inst, call, at) ==
    [task |-> task_id, job |-> job, inst |-> inst, call |-> call, pc |-> at,
     obj |-> Null, report |-> 0]

\* submitted to a pool and not finished / holding a worker or a request thread
Live(r) == r.pc \in {"queued", "load", "batch", "save", "mail"}
Executing(r) == r.pc \in {"load", "batch", "save", "mail"}

Busy(inst) == Cardinality({r \in DOMAIN runs : runs[r].inst = inst /\ Executing(runs[r])})

SchedulerRunning == _scheduler # 0 /\ instances[_scheduler].running

\* scheduler._add_job (lines 127-169): nothing without a running scheduler;
\* the old job is removed first, and add_job raising leaves it removed
_add_job(insts, task_id, row) ==
    IF ~SchedulerRunning THEN insts
    ELSE [insts EXCEPT ![_scheduler].jobs =
            IF row.cron_ok
            THEN Put(Remove(@, JobId(task_id)), JobId(task_id), 0)
            ELSE Remove(@, JobId(task_id))]

\* scheduler._remove_job (lines 172-179)
_remove_job(insts, task_id) ==
    IF _scheduler = 0 THEN insts
    ELSE [insts EXCEPT ![_scheduler].jobs = Remove(@, JobId(task_id))]

\* scheduler.register_task (lines 182-188)
register_task(insts, task_id, row) ==
    IF row.status = "active" THEN _add_job(insts, task_id, row)
    ELSE _remove_job(insts, task_id)

\* scheduler.start, line 90
st_call(t) ==
    /\ starting[t] = "idle"
    /\ budget > 0
    /\ budget' = budget - 1
    /\ starting' = [starting EXCEPT ![t] = "check"]
    /\ UNCHANGED <<_scheduler, instances, scheduled_tasks, runs, timers, loads, mails, now, calls>>
    /\ UNCHANGED <<exec_vars, reports>>

st_check(t) ==
    /\ starting[t] = "check"
    /\ starting' = [starting EXCEPT ![t] = IF SchedulerRunning THEN "idle" ELSE "create"]
    /\ UNCHANGED <<_scheduler, instances, scheduled_tasks, runs, timers, loads, mails, now, calls, budget>>
    /\ UNCHANGED <<exec_vars, reports>>

\* line 100
st_create(t) ==
    /\ starting[t] = "create"
    /\ instances' = Append(instances, [running |-> FALSE, jobs |-> EmptyMap])
    /\ _scheduler' = Len(instances) + 1
    /\ starting' = [starting EXCEPT ![t] = "start"]
    /\ UNCHANGED <<scheduled_tasks, runs, timers, loads, mails, now, calls, budget>>
    /\ UNCHANGED <<exec_vars, reports>>

\* lines 102-112: starting a scheduler that already runs raises, which is
\* logged; otherwise the Timer for _load_all_tasks is started
st_start(t) ==
    /\ starting[t] = "start"
    /\ IF instances[_scheduler].running
       THEN UNCHANGED <<instances, timers>>
       ELSE /\ instances' = [instances EXCEPT ![_scheduler].running = TRUE]
            /\ timers' = timers + 1
    /\ starting' = [starting EXCEPT ![t] = "idle"]
    /\ UNCHANGED <<_scheduler, scheduled_tasks, runs, loads, mails, now, calls, budget>>
    /\ UNCHANGED <<exec_vars, reports>>

RECURSIVE AddAll(_, _)
AddAll(insts, ids) ==
    IF ids = {} THEN insts
    ELSE LET k == CHOOSE x \in ids : \A y \in ids : x <= y
         IN AddAll(_add_job(insts, k, scheduled_tasks[k]), ids \ {k})

\* scheduler._load_all_tasks (lines 115-124), run by a Timer
_load_all_tasks ==
    /\ timers > 0
    /\ timers' = timers - 1
    /\ loads' = loads + 1
    /\ instances' = AddAll(instances,
            {k \in DOMAIN scheduled_tasks : Exists(k) /\ scheduled_tasks[k].status = "active"})
    /\ UNCHANGED <<_scheduler, scheduled_tasks, runs, starting, mails, now, calls, budget>>
    /\ UNCHANGED <<exec_vars, reports>>

\* the request bodies of POST/PUT /scheduled-tasks (views.py:1251-1262)
TaskBodies ==
    {TaskRow("active", TRUE, <<1>>, TRUE), TaskRow("active", FALSE, <<1>>, FALSE),
     TaskRow("paused", TRUE, <<1>>, FALSE), TaskRow("active", TRUE, <<>>, FALSE)}

\* views._create_or_update_task with task = None (lines 1264-1277)
create_task(body) ==
    /\ budget > 0
    /\ budget' = budget - 1
    /\ Len(scheduled_tasks) < MaxTasks
    /\ scheduled_tasks' = Append(scheduled_tasks, body)
    /\ instances' = register_task(instances, Len(scheduled_tasks) + 1, body)
    /\ UNCHANGED <<_scheduler, runs, starting, timers, loads, mails, now, calls>>
    /\ UNCHANGED <<exec_vars, reports>>

\* views._create_or_update_task for PUT (lines 1267-1277)
update_task(pk, body) ==
    /\ budget > 0
    /\ budget' = budget - 1
    /\ Exists(pk)
    /\ LET row == [body EXCEPT !.last_report_id = scheduled_tasks[pk].last_report_id,
                               !.last_result = scheduled_tasks[pk].last_result]
       IN /\ scheduled_tasks' = [scheduled_tasks EXCEPT ![pk] = row]
          /\ instances' = register_task(instances, pk, row)
    /\ UNCHANGED <<_scheduler, runs, starting, timers, loads, mails, now, calls>>
    /\ UNCHANGED <<exec_vars, reports>>

\* views.scheduled_task_toggle (lines 1295-1309)
scheduled_task_toggle(pk) ==
    /\ budget > 0
    /\ budget' = budget - 1
    /\ Exists(pk)
    /\ LET row == [scheduled_tasks[pk] EXCEPT
                        !.status = IF @ = "active" THEN "paused" ELSE "active"]
       IN /\ scheduled_tasks' = [scheduled_tasks EXCEPT ![pk] = row]
          /\ instances' = register_task(instances, pk, row)
    /\ UNCHANGED <<_scheduler, runs, starting, timers, loads, mails, now, calls>>
    /\ UNCHANGED <<exec_vars, reports>>

\* views.scheduled_task_detail, DELETE (lines 1230-1234)
delete_task(pk) ==
    /\ budget > 0
    /\ budget' = budget - 1
    /\ Exists(pk)
    /\ instances' = _remove_job(instances, pk)
    /\ scheduled_tasks' = [scheduled_tasks EXCEPT ![pk] = Null]
    /\ UNCHANGED <<_scheduler, runs, starting, timers, loads, mails, now, calls>>
    /\ UNCHANGED <<exec_vars, reports>>

\* scheduler.trigger_task_now (lines 215-233), called by
\* views.scheduled_task_run_now: a one-shot job, or run_task inline when no
\* scheduler runs or add_job raises (the id is already in the job store)
trigger_task_now(task_id) ==
    /\ budget > 0
    /\ budget' = budget - 1
    /\ Exists(task_id)
    /\ calls' = calls + 1
    /\ LET id == ImmediateId(task_id, now)
       IN IF SchedulerRunning /\ id \notin DOMAIN instances[_scheduler].jobs
          THEN /\ instances' = [instances EXCEPT ![_scheduler].jobs = Put(@, id, calls + 1)]
               /\ UNCHANGED runs
          ELSE /\ runs' = Append(runs, RunOf(task_id, <<"inline">>, 0, calls + 1, "load"))
               /\ UNCHANGED instances
    /\ UNCHANGED <<_scheduler, scheduled_tasks, starting, timers, loads, mails, now>>
    /\ UNCHANGED <<exec_vars, reports>>

\* time.time() advances by a second
tick ==
    /\ now < MaxClock
    /\ now' = now + 1
    /\ UNCHANGED <<_scheduler, instances, scheduled_tasks, runs, starting, timers,
                   loads, mails, calls, budget>>
    /\ UNCHANGED <<exec_vars, reports>>

\* a job of a running scheduler is due: it is submitted to the pool unless
\* max_instances executions of this job are in the pool; a date job leaves
\* the job store
fire(inst, id) ==
    /\ budget > 0
    /\ budget' = budget - 1
    /\ inst \in DOMAIN instances
    /\ instances[inst].running
    /\ id \in DOMAIN instances[inst].jobs
    /\ Cardinality({r \in DOMAIN runs :
            runs[r].inst = inst /\ runs[r].job = id /\ Live(runs[r])}) < max_instances
    /\ runs' = Append(runs, RunOf(id[2], id, inst, instances[inst].jobs[id], "queued"))
    /\ instances' = IF id[1] = "immediate"
                    THEN [instances EXCEPT ![inst].jobs = Remove(@, id)]
                    ELSE instances
    /\ UNCHANGED <<_scheduler, scheduled_tasks, starting, timers, loads, mails, now, calls>>
    /\ UNCHANGED <<exec_vars, reports>>

Step(r, to) == runs' = [runs EXCEPT ![r].pc = to]

\* a pool worker takes the submitted execution
rt_begin(r) ==
    /\ r \in DOMAIN runs
    /\ runs[r].pc = "queued"
    /\ Busy(runs[r].inst) < MaxWorkers
    /\ Step(r, "load")
    /\ UNCHANGED <<_scheduler, instances, scheduled_tasks, starting, timers, loads,
                   mails, now, calls, budget>>
    /\ UNCHANGED <<exec_vars, reports>>

\* every worker stays busy for longer than misfire_grace_time (line 98): the
\* pool reports the run time as missed and never calls run_task
rt_missed(r) ==
    /\ r \in DOMAIN runs
    /\ runs[r].pc = "queued"
    /\ Busy(runs[r].inst) = MaxWorkers
    /\ Step(r, "missed")
    /\ UNCHANGED <<_scheduler, instances, scheduled_tasks, starting, timers, loads,
                   mails, now, calls, budget>>
    /\ UNCHANGED <<exec_vars, reports>>

\* run_task, line 33
may_run_always(row) == TRUE
may_run(row) == row.status = "active"

\* run_task, lines 32-40
rt_load(r) ==
    /\ r \in DOMAIN runs
    /\ runs[r].pc = "load"
    /\ LET k == runs[r].task
       IN IF ~Exists(k)
          THEN Step(r, "done")
          ELSE LET row == scheduled_tasks[k]
               IN runs' = [runs EXCEPT ![r].obj = row,
                                       ![r].pc = IF may_run(row) /\ row.api_ids # <<>>
                                                 THEN "batch" ELSE "done"]
    /\ UNCHANGED <<_scheduler, instances, scheduled_tasks, starting, timers, loads,
                   mails, now, calls, budget>>
    /\ UNCHANGED <<exec_vars, reports>>

\* the TestReport execute_batch returns for n APIs of which p passed
BatchReport(n, p) ==
    [kind |-> "batch", status |-> "completed", total |-> n,
     passed |-> p, failed |-> n - p, error |-> 0]

\* Model.save(update_fields=...) of the loaded row: it raises when the row is gone
Save(r) ==
    IF Exists(runs[r].task)
    THEN [scheduled_tasks EXCEPT ![runs[r].task] =
                [@ EXCEPT !.last_report_id = runs[r].report, !.last_result = "summary"]]
    ELSE scheduled_tasks

\* run_task, lines 47-53: execute_batch returns a report, returns None (no
\* ApiConfig has one of the ids; last_result is saved) or raises
rt_batch(r) ==
    /\ r \in DOMAIN runs
    /\ runs[r].pc = "batch"
    /\ \/ \E p \in {0, Len(runs[r].obj.api_ids)} :
            /\ reports' = Append(reports, BatchReport(Len(runs[r].obj.api_ids), p))
            /\ runs' = [runs EXCEPT ![r].pc = "save", ![r].report = Len(reports) + 1]
            /\ UNCHANGED scheduled_tasks
       \/ /\ scheduled_tasks' =
                IF Exists(runs[r].task)
                THEN [scheduled_tasks EXCEPT ![runs[r].task].last_result = "none"]
                ELSE scheduled_tasks
          /\ Step(r, "done")
          /\ UNCHANGED reports
       \/ /\ Step(r, "done")
          /\ UNCHANGED <<reports, scheduled_tasks>>
    /\ UNCHANGED <<_scheduler, instances, starting, timers, loads, mails, now, calls, budget>>
    /\ UNCHANGED exec_vars

\* run_task, lines 55-59
rt_save(r) ==
    /\ r \in DOMAIN runs
    /\ runs[r].pc = "save"
    /\ scheduled_tasks' = Save(r)
    /\ Step(r, IF Exists(runs[r].task) /\ runs[r].obj.send_email THEN "mail" ELSE "done")
    /\ UNCHANGED <<_scheduler, instances, starting, timers, loads, mails, now, calls,
                   budget, reports>>
    /\ UNCHANGED exec_vars

\* run_task, lines 64-70
rt_mail(r) ==
    /\ r \in DOMAIN runs
    /\ runs[r].pc = "mail"
    /\ mails' = Append(mails, runs[r].report)
    /\ Step(r, "done")
    /\ UNCHANGED <<_scheduler, instances, scheduled_tasks, starting, timers, loads,
                   now, calls, budget, reports>>
    /\ UNCHANGED exec_vars

\* a process whose scheduler has started and loaded one active task with a
\* recurring job; requests to the task views and firings follow
MaxEvents == 3

InitSched ==
    /\ InitExecutor
    /\ runtime_vars = EmptyMap
    /\ apis = TaskTable
    /\ budget = MaxEvents
    /\ _scheduler = 1
    /\ instances = <<[running |-> TRUE, jobs |-> (JobId(1) :> 0)]>>
    /\ scheduled_tasks = <<TaskRow("active", TRUE, <<1>>, TRUE)>>
    /\ runs = <<>>
    /\ starting = <<>>
    /\ timers = 0
    /\ loads = 1
    /\ mails = <<>>
    /\ now = 0
    /\ calls = 0

run_task(r) ==
    \/ rt_begin(r)
    \/ rt_load(r)
    \/ rt_batch(r)
    \/ rt_save(r)
    \/ rt_mail(r)

NextSched ==
    \/ \E body \in TaskBodies : create_task(body)
    \/ \E pk \in 1..MaxTasks, body \in TaskBodies : update_task(pk, body)
    \/ \E pk \in 1..MaxTasks : scheduled_task_toggle(pk)
    \/ \E pk \in 1..MaxTasks : delete_task(pk)
    \/ \E pk \in 1..MaxTasks : trigger_task_now(pk)
    \/ tick
    \/ \E i \in InstanceIds, id \in JobIds : fire(i, id)
    \/ \E r \in RunIds : run_task(r)

SpecSched == InitSched /\ [][NextSched]_vars

\* a process whose scheduler runs with two active tasks, while the pool
\* executes MaxWorkers earlier run-now requests for task 2; more run-now
\* requests and firings follow
InitTrigger ==
    /\ InitExecutor
    /\ runtime_vars = EmptyMap
    /\ apis = TaskTable
    /\ budget = MaxEvents
    /\ _scheduler = 1
    /\ instances = <<[running |-> TRUE, jobs |-> (JobId(1) :> 0) @@ (JobId(2) :> 0)]>>
    /\ scheduled_tasks = <<TaskRow("active", TRUE, <<1>>, TRUE),
                           TaskRow("active", TRUE, <<>>, FALSE)>>
    /\ runs = [c \in 1..MaxWorkers |-> RunOf(2, ImmediateId(2, 0), 1, c, "load")]
    /\ starting = <<>>
    /\ timers = 0
    /\ loads = 1
    /\ mails = <<>>
    /\ now = 0
    /\ calls = MaxWorkers

NextTrigger ==
    \/ \E task_id \in 1..MaxTasks : trigger_task_now(task_id)
    \/ tick
    \/ \E id \in JobIds : fire(1, id)
    \/ \E r \in RunIds : run_task(r) \/ rt_missed(r)

SpecTrigger == InitTrigger /\ [][NextTrigger]_vars

\* a process at import time with an active and a paused task stored: callers of start(),
\* the Timer threads they start, and the firings of the loaded jobs
InitStart ==
    /\ InitExecutor
    /\ runtime_vars = EmptyMap
    /\ apis = TaskTable
    /\ budget = MaxEvents
    /\ _scheduler = 0
    /\ instances = <<>>
    /\ scheduled_tasks = <<TaskRow("active", TRUE, <<1>>, TRUE),
                           TaskRow("paused", TRUE, <<1>>, FALSE)>>
    /\ runs = <<>>
    /\ starting = [t \in StartCallers |-> "idle"]
    /\ timers = 0
    /\ loads = 0
    /\ mails = <<>>
    /\ now = 0
    /\ calls = 0

NextStart ==
    \/ \E t \in StartCallers : st_call(t) \/ st_check(t) \/ st_create(t) \/ st_start(t)
    \/ _load_all_tasks
    \/ \E i \in InstanceIds, id \in JobIds : fire(i, id)
    \/ \E r \in RunIds : run_task(r)

SpecStart == InitStart /\ [][NextStart]_vars

\* Calls of _replace_vars: the text is up to MaxLen pieces, a piece being a
\* literal or a placeholder; the variables are strings (one of them holding
\* a placeholder itself) and a number
MaxLen == 2
Pieces == {Lit("a"), Ph("a"), PhPad("a"), Ph("b"), Ph("zz")}
Texts == UNION {[1..n -> Pieces] : n \in 0..MaxLen}
Values == {Str(<<Lit("x")>>), Str(<<Ph("b")>>), Num(1)}
VarMaps == UNION {[names -> Values] : names \in SUBSET {"a", "b"}}

InitReplace ==
    /\ InitScheduler
    /\ InitLocust
    /\ _batch_tasks = <<>>
    /\ closed_sessions = {}
    /\ runtime_vars = EmptyMap
    /\ session_store = EmptyMap
    /\ global_vars = EmptyMap
    /\ apis = EmptyMap
    /\ reports = <<>>
    /\ results = <<>>
    /\ pc = [t \in Threads |-> "idle"]
    /\ frame = [t \in Threads |-> IdleFrame]
    /\ loc = [t \in Threads |-> IdleLoc]
    /\ budget = 0
    /\ fn \in [stage : {"args"}, text : Texts, variables : VarMaps,
                once : {<<>>}, twice : {<<>>}]

\* s1 = _replace_vars(s, vars)
replace_once ==
    /\ fn # Null
    /\ fn.stage = "args"
    /\ fn' = [fn EXCEPT !.stage = "once", !.once = _replace_vars(fn.text, fn.variables)]
    /\ UNCHANGED <<runtime_vars, session_store, global_vars, apis, reports, results,
                   pc, frame, loc, budget, closed_sessions, sched_vars, load_vars,
                   _batch_tasks>>

\* s2 = _replace_vars(s1, vars)
replace_twice ==
    /\ fn # Null
    /\ fn.stage = "once"
    /\ fn' = [fn EXCEPT !.stage = "twice", !.twice = _replace_vars(fn.once, fn.variables)]
    /\ UNCHANGED <<runtime_vars, session_store, global_vars, apis, reports, results,
                   pc, frame, loc, budget, closed_sessions, sched_vars, load_vars,
                   _batch_tasks>>

NextReplace == replace_once \/ replace_twice

SpecReplace == InitReplace /\ [][NextReplace]_vars

\* Calls of replace_vars_in_dict: strings, a number, and maps and lists of
\* them nested up to MaxDepth levels
MaxDepth == 3
Leaves == {Str(<<Ph("a")>>), Str(<<Lit("a")>>), Num(1)}
Wrap(xs) == {List(<<x>>) : x \in xs} \cup {Map("k" :> x) : x \in xs}
RECURSIVE Nested(_)
Nested(d) == IF d = 0 THEN Leaves ELSE Wrap(Nested(d - 1))
Datas == UNION {Nested(d) : d \in 0..MaxDepth}

InitDeep ==
    /\ InitScheduler
    /\ InitLocust
    /\ _batch_tasks = <<>>
    /\ closed_sessions = {}
    /\ runtime_vars = EmptyMap
    /\ session_store = EmptyMap
    /\ global_vars = EmptyMap
    /\ apis = EmptyMap
    /\ reports = <<>>
    /\ results = <<>>
    /\ pc = [t \in Threads |-> "idle"]
    /\ frame = [t \in Threads |-> IdleFrame]
    /\ loc = [t \in Threads |-> IdleLoc]
    /\ budget = 0
    /\ fn \in [stage : {"args"}, data : Datas,
                variables : {EmptyMap, "a" :> Str(<<Lit("x")>>)}, out : {Null}]

\* out = replace_vars_in_dict(data, vars)
replace_deep ==
    /\ fn # Null
    /\ fn.stage = "args"
    /\ fn' = [fn EXCEPT !.stage = "done",
                        !.out = replace_vars_in_dict(fn.data, fn.variables)]
    /\ UNCHANGED <<runtime_vars, session_store, global_vars, apis, reports, results,
                   pc, frame, loc, budget, closed_sessions, sched_vars, load_vars,
                   _batch_tasks>>

SpecDeep == InitDeep /\ [][replace_deep]_vars

-----------------------------------------------------------------------------
(* The load driver: locust_runner.py on the Django side, and the worker    *)
(* script it runs in a child process                                       *)

\* task ids the view hands to start_locust, each used for one load test
LoadIds == {1}
\* task ids of the other requests: those, and an id no load test was started with
AnyIds == LoadIds \cup {9}

\* requests the virtual users of one load test make
MaxHits == 2
\* collect calls served
MaxCollects == 2
\* lines an uncaught exception of the worker prints
TracebackLens == {3, 12}

\* the exit status of a child killed by the default action of SIGTERM
SIGTERM == 15
Killed == Num(0 - SIGTERM)

\* lines[-10:] of get_locust_status
TailLen == 10

\* ApiConfig.name of the rows of TaskTable
ApiName == (1 :> "login") @@ (2 :> "order")

\* a file that exists and holds no JSON document: json.load raises
Truncated == [t |-> "text"]

\* the files start_locust leaves for a new child: status.json and
\* result.json removed, the log opened for writing
Files == [status |-> Null, result |-> Null, log |-> <<>>]

\* a child process at a position of the worker script
Worker(at) ==
    [pc |-> at, retcode |-> Null, stats |-> <<>>, signalled |-> FALSE, payload |-> <<>>]

Known(task_id) == task_id \in DOMAIN _tasks

Alive(task_id) == Known(task_id) /\ procs[task_id].retcode = Null

RECURSIVE Sum(_, _)
Sum(rows, field) ==
    IF rows = <<>> THEN 0 ELSE Head(rows)[field] + Sum(Tail(rows), field)

\* write_status(status, **kw) of the worker
write_status(task_id, status, stats, error) ==
    [work_dir EXCEPT ![task_id].status =
        [status |-> status, total_requests |-> Sum(stats, "num_requests"),
         total_failures |-> Sum(stats, "num_failures"), error |-> error]]

\* the process ends with an exit status
Exit(task_id, code) ==
    procs' = [procs EXCEPT ![task_id].pc = "exited", ![task_id].retcode = code]

Goto(task_id, at) == procs' = [procs EXCEPT ![task_id].pc = at]

\* the load driver's steps leave the executor and the scheduler alone
LoadFrame ==
    UNCHANGED <<runtime_vars, session_store, global_vars, apis, pc, frame, loc,
                budget, closed_sessions, sched_vars, fn, _batch_tasks>>

\* the child's steps leave the Django process alone
WorkerFrame == LoadFrame /\ UNCHANGED <<_tasks, reports, results, reply>>

\* The child the registry holds for a task id is kept in procs under that
\* id; a child of an earlier start_locust with the same id, which the
\* registry no longer holds, is kept under Orphan(task_id). Both run the
\* script with the same paths: status_<task_id>.json and result_<task_id>.json.
Orphan(task_id) == task_id + 100
Home(p) == IF p > 100 THEN p - 100 ELSE p

\* a child process that has not ended
NotEnded(p) == p \in DOMAIN procs /\ procs[p].retcode = Null

\* write_status("starting") at the head of the script
w_begin(task_id) ==
    /\ NotEnded(task_id)
    /\ procs[task_id].pc = "boot"
    /\ work_dir' = write_status(Home(task_id), "starting", <<>>, <<>>)
    /\ Goto(task_id, "import")
    /\ WorkerFrame

\* the locust imports: an ImportError is reported in status.json and the
\* script exits with 1
w_import(task_id) ==
    /\ NotEnded(task_id)
    /\ procs[task_id].pc = "import"
    /\ \/ /\ Goto(task_id, "start")
          /\ UNCHANGED work_dir
       \/ /\ work_dir' = write_status(Home(task_id), "error", <<>>, <<0>>)
          /\ Exit(task_id, Num(1))
    /\ WorkerFrame

\* the user class, the environment and the runner are built and the runner is
\* started; an exception nothing catches prints its traceback to the log
w_start(task_id) ==
    /\ NotEnded(task_id)
    /\ procs[task_id].pc = "start"
    /\ \/ /\ work_dir' = write_status(Home(task_id), "ramping", <<>>, <<>>)
          /\ Goto(task_id, "sleep")
       \/ \E n \in TracebackLens :
            /\ work_dir' = [work_dir EXCEPT ![Home(task_id)].log = [i \in 1..n |-> i]]
            /\ Exit(task_id, Num(1))
    /\ WorkerFrame

\* runner.stats after one more request of a virtual user for an endpoint
log_request(stats, name, failed) ==
    IF \E i \in DOMAIN stats : stats[i].name = name
    THEN [i \in DOMAIN stats |->
            IF stats[i].name = name
            THEN [stats[i] EXCEPT !.num_requests = @ + 1,
                                  !.num_failures = @ + (IF failed THEN 1 ELSE 0)]
            ELSE stats[i]]
    ELSE Append(stats, [name |-> name, num_requests |-> 1,
                        num_failures |-> IF failed THEN 1 ELSE 0])

\* a virtual user makes a request while the script sleeps for the duration
w_request(task_id) ==
    /\ NotEnded(task_id)
    /\ procs[task_id].pc = "sleep"
    /\ Sum(procs[task_id].stats, "num_requests") < MaxHits
    /\ \E i \in DOMAIN procs[task_id].payload, failed \in BOOLEAN :
            procs' = [procs EXCEPT ![task_id].stats =
                        log_request(@, ApiName[procs[task_id].payload[i]], failed)]
    /\ UNCHANGED work_dir
    /\ WorkerFrame

\* the status updater greenlet, once a second
w_update(task_id) ==
    /\ NotEnded(task_id)
    /\ procs[task_id].pc = "sleep"
    /\ \E status \in {"running", "starting"} :
            work_dir' = write_status(Home(task_id), status, procs[task_id].stats, <<>>)
    /\ UNCHANGED procs
    /\ WorkerFrame

\* the duration is over: runner.stop(), updater.kill()
w_stop(task_id) ==
    /\ NotEnded(task_id)
    /\ procs[task_id].pc = "sleep"
    /\ Goto(task_id, "result")
    /\ UNCHANGED work_dir
    /\ WorkerFrame

\* open(RESULT_PATH, "w") creates the file empty
w_open(task_id) ==
    /\ NotEnded(task_id)
    /\ procs[task_id].pc = "result"
    /\ work_dir' = [work_dir EXCEPT ![Home(task_id)].result = Truncated]
    /\ Goto(task_id, "dump")
    /\ WorkerFrame

\* all_stats: one row per entry of runner.stats and the row of the totals
all_stats(stats) ==
    Append(stats, [name |-> "Aggregated",
                   num_requests |-> Sum(stats, "num_requests"),
                   num_failures |-> Sum(stats, "num_failures")])

\* json.dump(all_stats, f) and the close of the file
w_dump(task_id) ==
    /\ NotEnded(task_id)
    /\ procs[task_id].pc = "dump"
    /\ work_dir' = [work_dir EXCEPT ![Home(task_id)].result = List(all_stats(procs[task_id].stats))]
    /\ Goto(task_id, "completed")
    /\ WorkerFrame

\* write_status("completed", ...)
w_completed(task_id) ==
    /\ NotEnded(task_id)
    /\ procs[task_id].pc = "completed"
    /\ work_dir' = write_status(Home(task_id), "completed", procs[task_id].stats, <<>>)
    /\ Goto(task_id, "quit")
    /\ WorkerFrame

\* env.runner.quit() and the end of the script
w_quit(task_id) ==
    /\ NotEnded(task_id)
    /\ procs[task_id].pc = "quit"
    /\ Exit(task_id, Num(0))
    /\ UNCHANGED work_dir
    /\ WorkerFrame

\* the SIGTERM of stop_locust reaches the child: the script installs no
\* handler, so the default action ends the process where it stands
w_sigterm(task_id) ==
    /\ NotEnded(task_id)
    /\ procs[task_id].signalled
    /\ Exit(task_id, Killed)
    /\ UNCHANGED work_dir
    /\ WorkerFrame

_WORKER_SCRIPT(task_id) ==
    \/ w_begin(task_id)
    \/ w_import(task_id)
    \/ w_start(task_id)
    \/ w_request(task_id)
    \/ w_update(task_id)
    \/ w_stop(task_id)
    \/ w_open(task_id)
    \/ w_dump(task_id)
    \/ w_completed(task_id)
    \/ w_quit(task_id)
    \/ w_sigterm(task_id)

\* start_locust(task_id, api_ids, ...)
start_locust(task_id, api_ids) ==
    /\ ~Known(task_id)
    /\ LET payload == order_by(api_ids)
       IN IF payload = <<>>
          THEN /\ reply' = [op |-> "start", task_id |-> task_id, success |-> FALSE]
               /\ UNCHANGED <<_tasks, procs, work_dir>>
          ELSE \E spawned \in BOOLEAN :
                /\ work_dir' = Put(work_dir, task_id, Files)
                /\ IF spawned
                   THEN /\ _tasks' = Put(_tasks, task_id,
                                         [api_ids |-> api_ids, payload |-> payload])
                        /\ procs' = Put(procs, task_id,
                                        [Worker("boot") EXCEPT !.payload = payload])
                   ELSE UNCHANGED <<_tasks, procs>>
                /\ reply' = [op |-> "start", task_id |-> task_id, success |-> spawned]
    /\ UNCHANGED <<reports, results>>
    /\ LoadFrame

\* ''.join(lines[-10:])
LogTail(lines) == SubSeq(lines, Max(1, Len(lines) - TailLen + 1), Len(lines))

\* the status as status.json alone tells it
status_of_file(retcode, live) ==
    IF live = Null THEN "running" ELSE live.status

\* the status get_locust_status answers for an exit code and the document
\* read from status.json ({} when it cannot be read)
status_of(retcode, live) ==
    IF retcode = Null
    THEN IF live = Null THEN "running" ELSE live.status
    ELSE IF retcode = Num(0) THEN "completed" ELSE "error"

\* get_locust_status(task_id); a status.json the worker is rewriting cannot be
\* parsed
get_locust_status(task_id) ==
    /\ IF ~Known(task_id)
       THEN reply' = [op |-> "status", task_id |-> task_id, found |-> FALSE]
       ELSE \E readable \in BOOLEAN :
            LET retcode == procs[task_id].retcode
                live == IF readable THEN work_dir[task_id].status ELSE Null
                status == status_of(retcode, live)
            IN reply' =
                [op |-> "status", task_id |-> task_id, found |-> TRUE,
                 status |-> status, return_code |-> retcode, live |-> live,
                 total_requests |-> IF live = Null THEN 0 ELSE live.total_requests,
                 total_failures |-> IF live = Null THEN 0 ELSE live.total_failures,
                 error |-> IF status = "error" /\ retcode # Null
                           THEN LogTail(work_dir[task_id].log)
                           ELSE IF live = Null THEN <<>> ELSE live.error]
    /\ UNCHANGED <<_tasks, procs, work_dir, reports, results>>
    /\ LoadFrame

\* stop_locust(task_id): Popen.terminate() signals a child that has not ended
stop_locust(task_id) ==
    /\ IF ~Known(task_id)
       THEN /\ reply' = [op |-> "stop", task_id |-> task_id, success |-> FALSE]
            /\ UNCHANGED procs
       ELSE /\ reply' = [op |-> "stop", task_id |-> task_id, success |-> TRUE]
            /\ procs' = IF Alive(task_id)
                        THEN [procs EXCEPT ![task_id].signalled = TRUE]
                        ELSE procs
    /\ UNCHANGED <<_tasks, work_dir, reports, results>>
    /\ LoadFrame

\* every row of result.json, the row of the totals included
every_row(stats_list) == stats_list

\* the rows of result.json collect_locust_result reports on
endpoints(stats_list) == SelectSeq(stats_list, LAMBDA s : s.name # "Aggregated")

\* next((s for s in stats_list if s.get('name') == 'Aggregated'), {}) with
\* its two .get(..., 0)
agg(stats_list) ==
    LET found == SelectSeq(stats_list, LAMBDA s : s.name = "Aggregated")
    IN IF found = <<>> THEN [num_requests |-> 0, num_failures |-> 0] ELSE Head(found)

\* the TestReport of a load test
LoadReport(total_reqs, total_fail) ==
    [kind |-> "load", status |-> "completed", total |-> total_reqs,
     passed |-> total_reqs - total_fail, failed |-> total_fail, error |-> 0]

\* apis_map.get(ep['name']): the selected row of that name, 0 for None
matched(api_ids, name) ==
    LET ids == {id \in Selected(api_ids) : ApiName[id] = name}
    IN IF ids = {} THEN 0 ELSE CHOOSE id \in ids : TRUE

\* the TestResult of an endpoint
LoadResult(report, api_ids, ep) ==
    [report |-> report, api |-> matched(api_ids, ep.name), api_name |-> ep.name,
     status |-> IF ep.num_failures = 0 THEN "pass" ELSE "fail"]

\* collect_locust_result(task_id, report_name)
collect_locust_result(task_id) ==
    /\ Len(reports) < MaxCollects
    /\ IF ~Known(task_id)
          \/ work_dir[task_id].result = Null
          \/ work_dir[task_id].result = Truncated
       THEN /\ reply' = [op |-> "collect", task_id |-> task_id, success |-> FALSE]
            /\ UNCHANGED <<reports, results>>
       ELSE LET stats_list == work_dir[task_id].result.v
                report_id == Len(reports) + 1
                eps == endpoints(stats_list)
            IN /\ reports' = Append(reports,
                        LoadReport(agg(stats_list).num_requests,
                                   agg(stats_list).num_failures))
               /\ results' = results \o
                        [i \in DOMAIN eps |->
                            LoadResult(report_id, _tasks[task_id].api_ids, eps[i])]
               /\ reply' = [op |-> "collect", task_id |-> task_id, success |-> TRUE,
                            report_id |-> report_id, stats_list |-> stats_list]
    /\ UNCHANGED <<_tasks, procs, work_dir>>
    /\ LoadFrame

\* api_ids of POST /locust/start: both rows, one row, an unknown id
LoadArgs == {<<1, 2>>, <<2>>, <<9>>}

\* One Django process whose views start a load test, ask for its status, stop
\* it and collect its result, while the child runs the worker script
InitLoad ==
    /\ InitCommon
    /\ runtime_vars = EmptyMap
    /\ apis = TaskTable
    /\ budget = 0

NextLoad ==
    \/ \E task_id \in LoadIds, api_ids \in LoadArgs : start_locust(task_id, api_ids)
    \/ \E task_id \in LoadIds : _WORKER_SCRIPT(task_id)
    \/ \E task_id \in AnyIds : get_locust_status(task_id)
    \/ \E task_id \in AnyIds : stop_locust(task_id)
    \/ \E task_id \in AnyIds : collect_locust_result(task_id)

SpecLoad == InitLoad /\ [][NextLoad]_vars

-----------------------------------------------------------------------------
(* redis_utils.py                                                          *)

\* "if cursor == 0 or len(keys) >= 200"
ScanCap == 200

\* numbers of keys of the server that match the pattern, and numbers of keys
\* one SCAN call of the cursor returns (COUNT is a hint the server may exceed)
Populations == {0, 150, 199, 200, 201, 350}
BatchSizes == {0, 1, 99, 100, 101, 200}

\* Calls of redis_scan: fn holds the keys the server has not returned yet and
\* the length of the list keys
InitScan ==
    /\ InitScheduler
    /\ InitLocust
    /\ _batch_tasks = <<>>
    /\ closed_sessions = {}
    /\ runtime_vars = EmptyMap
    /\ session_store = EmptyMap
    /\ global_vars = EmptyMap
    /\ apis = EmptyMap
    /\ reports = <<>>
    /\ results = <<>>
    /\ pc = [t \in Threads |-> "idle"]
    /\ frame = [t \in Threads |-> IdleFrame]
    /\ loc = [t \in Threads |-> IdleLoc]
    /\ budget = 0
    /\ fn \in [stage : {"called"}, left : Populations, keys : {0},
               success : {FALSE}, total : {0}]

PureFrame ==
    UNCHANGED <<runtime_vars, session_store, global_vars, apis, reports, results,
                pc, frame, loc, budget, closed_sessions, sched_vars, load_vars,
                   _batch_tasks>>

\* get_client(redis_config): the client, or the error redis_scan returns
\* with no keys
scan_connect ==
    /\ fn # Null
    /\ fn.stage = "called"
    /\ \E connected \in BOOLEAN :
            fn' = IF connected THEN [fn EXCEPT !.stage = "scanning"]
                  ELSE [fn EXCEPT !.stage = "returned"]
    /\ PureFrame

\* one turn of the while loop: client.scan(cursor, ...), keys.extend(batch)
\* and the test that ends the loop; the cursor is 0 when the server has
\* walked its whole key space
scan_batch ==
    /\ fn # Null
    /\ fn.stage = "scanning"
    /\ \E n \in BatchSizes, walked \in BOOLEAN :
            /\ n <= fn.left
            /\ walked => n = fn.left
            /\ LET keys == fn.keys + n
               IN fn' = IF walked \/ keys >= ScanCap
                        THEN [fn EXCEPT !.stage = "returned", !.left = @ - n,
                                        !.keys = keys, !.success = TRUE, !.total = keys]
                        ELSE [fn EXCEPT !.left = @ - n, !.keys = keys]
    /\ PureFrame

redis_scan == scan_connect \/ scan_batch

SpecScan == InitScan /\ [][redis_scan]_vars

\* RedisConfig rows, and the arguments of POST /redis/op with fetch_captcha
RedisConfigs == {1}
CaptchaKeys == {<<Lit("sms:"), Ph("mobile")>>}
CaptchaNames == {"captcha", "mobile", "code"}
CaptchaFields == {"", "code", "zz"}

\* what redis_get answers: an error, no value, a text that is no JSON, the
\* text of a JSON number, the text of a JSON object
RedisNumber(n) == [text |-> T(ToString(n)), obj |-> Num(n)]
CaptchaAnswers ==
    {[k |-> "error"], [k |-> "none"],
     [k |-> "value", raw |-> RedisText(T("ab12"))],
     [k |-> "value", raw |-> RedisNumber(1234)],
     [k |-> "value", raw |-> RedisJson(9)]}

\* lines 220-229: str(final_value), Null for the return of line 227
final_value(raw, extract_field) ==
    IF extract_field = "" THEN Str(raw.text)
    ELSE IF raw.obj = Null THEN Str(raw.text)
    ELSE IF raw.obj.t = "map" /\ extract_field \in DOMAIN raw.obj.v
         THEN Str(StrOf(raw.obj.v[extract_field]))
         ELSE Null

\* the runtime store that keeps what it holds
set_nothing(name, value) == runtime_vars

\* GlobalVariable.objects.update_or_create(name=var_name, defaults={value: ...})
update_or_create(name, value) == Put(global_vars, name, value)

\* executor.set_runtime_var(name, value)
set_runtime_var(name, value) == Put(runtime_vars, name, value)

\* fetch_captcha_to_global(redis_config_id, redis_key, var_name, extract_field);
\* reply.args and reply.answer remember the call and what Redis answered
fetch_captcha_to_global(redis_config_id, redis_key, var_name, extract_field) ==
    /\ \E ans \in CaptchaAnswers :
        LET args == [redis_config_id |-> redis_config_id, redis_key |-> redis_key,
                     var_name |-> var_name, extract_field |-> extract_field]
            failure == [op |-> "fetch_captcha", args |-> args, answer |-> ans,
                        success |-> FALSE]
            real_key == _replace_vars(redis_key, load_global_vars)
        IN IF redis_config_id \notin RedisConfigs \/ ans.k # "value"
           THEN /\ reply' = failure
                /\ UNCHANGED <<global_vars, runtime_vars>>
           ELSE LET final == final_value(ans.raw, extract_field)
                IN IF final = Null
                   THEN /\ reply' = failure
                        /\ UNCHANGED <<global_vars, runtime_vars>>
                   ELSE /\ global_vars' = update_or_create(var_name, final)
                        /\ runtime_vars' = set_runtime_var(var_name, final)
                        /\ reply' = [op |-> "fetch_captcha", args |-> args,
                                     answer |-> ans, success |-> TRUE,
                                     key |-> real_key, extracted_value |-> final,
                                     var_name |-> var_name]
    /\ UNCHANGED <<session_store, apis, reports, results, pc, frame, loc, budget,
                   closed_sessions, sched_vars, fn, _tasks, procs, work_dir,
                   _batch_tasks>>

\* One request thread serving POST /redis/op with action fetch_captcha
InitCaptcha ==
    /\ InitCommon
    /\ runtime_vars = EmptyMap
    /\ apis = EmptyMap
    /\ budget = 0

NextCaptcha ==
    \E id \in RedisConfigs \cup {9}, key \in CaptchaKeys,
       name \in CaptchaNames, field \in CaptchaFields :
            fetch_captcha_to_global(id, key, name, field)

SpecCaptcha == InitCaptcha /\ [][NextCaptcha]_vars

-----------------------------------------------------------------------------
(* Properties                                                              *)

\* the TestResult rows a report owns, in insertion order
RowsOf(r) == SelectSeq(results, LAMBDA row : row.report = r)

\* execute_api has handed its result map to the caller
Returned(t) == pc[t] \in {"rs_collect", "eb_persist"}

\* the thread takes the step
Acts(t) == pc'[t] # pc[t] \/ loc'[t] # loc[t]

Contains(m, sub) == \A n \in DOMAIN sub : n \in DOMAIN m /\ m[n] = sub[n]

StageNames ==
    <<"pre_redis", "subst", "field_enc", "whole_enc", "pre_sql", "http", "parse",
      "extract", "http_assert", "dd_assert", "post_sql", "db_assert">>
Rank(name) == PosIn(StageNames, name)
Logged(l, name) == \E i \in DOMAIN l.stages : l.stages[i] = name

PipelineStages == {StageOrder[i] : i \in DOMAIN StageOrder}

Declared(c) ==
    c.assertions # <<>> \/ c.deepdiff_assertions # <<>> \/ c.db_assertions # <<>>

\* every rule of every declared set has a result, and each result is passed
EveryRulePassed(c, l) ==
    /\ Len(l.assertion_results) = Len(c.assertions) /\ All(l.assertion_results)
    /\ Len(l.deepdiff_results) = Len(c.deepdiff_assertions) /\ All(l.deepdiff_results)
    /\ Len(l.db_assertion_results) = Len(c.db_assertions) /\ All(l.db_assertion_results)

\* C1: every completed TestReport of a batch or of a single run has
\* passed + failed + error = total, and total is the number of TestResult
\* rows the report owns.
C1_ReportTotals ==
    \A r \in DOMAIN reports :
        reports[r].status = "completed" =>
            /\ reports[r].passed + reports[r].failed + reports[r].error = reports[r].total
            /\ reports[r].total = Len(RowsOf(r))

\* C2: the status execute_api returns is error iff error_message is not
\* empty; otherwise it is pass iff no assertion set is declared and the
\* response status is 2xx, or some set is declared and every rule of every
\* declared set passed; otherwise it is fail.
C2_FinalStatus ==
    \A t \in Threads :
        Returned(t) =>
            LET l == loc[t]
                c == Cfg(t)
            IN /\ l.status \in {"pass", "fail", "error"}
               /\ l.status = "error" <=> l.error_message # 0
               /\ l.error_message = 0 =>
                    (l.status = "pass" <=>
                        \/ ~Declared(c) /\ 200 <= l.response_status
                                        /\ l.response_status < 300
                        \/ Declared(c) /\ EveryRulePassed(c, l))

\* a run whose HTTP rules all passed and whose DB rule failed returns fail
C2_Witness ==
    /\ Returned(1)
    /\ loc[1].status = "fail"
    /\ loc[1].assertion_results # <<>> /\ All(loc[1].assertion_results)
    /\ loc[1].db_assertion_results # <<>> /\ ~All(loc[1].db_assertion_results)

\* C3: the stages of an execute_api run happen in the order pre-Redis,
\* substitution, field encryption, whole-body encryption, pre-SQL, HTTP,
\* parsing, extraction, HTTP and structural-diff assertions, post-SQL, DB
\* assertions; the substituted request is computed from variables that hold
\* the pre-Redis values, and the post-SQL text and the DB rules are
\* substituted from variables that hold the extracted values.
C3_StageOrder ==
    \A t \in Threads :
        loc[t].api # 0 =>
            LET l == loc[t]
                c == Cfg(t)
            IN /\ \A i, j \in DOMAIN l.stages :
                    i < j => Rank(l.stages[i]) <= Rank(l.stages[j])
               /\ pc[t] = "ea_fenc" =>
                    /\ Contains(l.variables, RedisWrites(l.pre_redis_log))
                    /\ l.url = _replace_vars(c.url, l.variables)
                    /\ l.headers = replace_vars_in_dict(c.headers, l.variables)
                    /\ l.params = replace_vars_in_dict(c.params, l.variables)
                    /\ l.body = replace_vars_in_dict(c.body, l.variables)
               /\ (pc[t] = "ea_dbassert" /\ Logged(l, "post_sql")) =>
                    /\ Contains(l.variables, l.extracted)
                    /\ l.post_sql_sent = replace_vars_in_sql(c.post_sql, l.variables)
               /\ (pc[t] = "ea_final" /\ Logged(l, "db_assert")) =>
                    /\ Contains(l.variables, l.extracted)
                    /\ l.db_rules_sent = _replace_db_rules(c.db_assertions, l.variables)

\* a run that went through every stage a single configuration can have, with
\* a value injected by Redis and a value extracted from the response
C3_Witness ==
    /\ pc[1] = "ea_final"
    /\ loc[1].stages = <<"pre_redis", "subst", "whole_enc", "pre_sql", "http", "parse",
                         "extract", "http_assert", "dd_assert", "post_sql", "db_assert">>
    /\ "code" \in DOMAIN RedisWrites(loc[1].pre_redis_log)
    /\ "newtok" \in DOMAIN loc[1].extracted
    /\ loc[1].post_sql_sent = <<Lit("update "), Lit("T1")>>

\* C4: in a batch, when an earlier API wrote v = x (by extraction or by a
\* pre-Redis rule) and the batch has not overwritten it, the url, headers,
\* params and body a later API substitutes have every {{v}} replaced by
\* str(x).
C4_BatchVisibility ==
    \A t \in Threads :
        (frame[t].kind = "batch" /\ pc[t] = "ea_fenc") =>
            LET l == loc[t]
                c == Cfg(t)
                w == frame[t].wrote
            IN \A v \in DOMAIN w :
                LET one == v :> w[v]
                IN /\ l.url = _replace_vars(_replace_vars(c.url, one), l.variables)
                   /\ l.headers = replace_vars_in_dict(
                                      replace_vars_in_dict(c.headers, one), l.variables)
                   /\ l.params = replace_vars_in_dict(
                                     replace_vars_in_dict(c.params, one), l.variables)
                   /\ l.body = replace_vars_in_dict(
                                   replace_vars_in_dict(c.body, one), l.variables)

\* C5: at the step that ends the extraction stage of a run whose dispatch
\* succeeded, the runtime store maps every extracted name to its value; a
\* step of the extraction stage of a run whose dispatch failed leaves the
\* runtime store as it is.
C5_ExtractionStored ==
    [][\A t \in Threads :
        /\ (pc[t] = "ea_extract" /\ pc'[t] = "ea_assert" /\ loc[t].error_message = 0) =>
                Contains(runtime_vars', loc'[t].extracted)
        /\ (pc[t] = "ea_extract" /\ Acts(t) /\ loc[t].error_message # 0) =>
                runtime_vars' = runtime_vars]_vars

\* C6: the returned status is error exactly when the dispatch timed out or
\* raised; an error result has a non-empty error_message, of at most 400
\* characters when it is no timeout, and response_status 0.
C6_ErrorStatus ==
    \A t \in Threads :
        Returned(t) =>
            LET l == loc[t]
            IN /\ l.status = "error" <=> l.exc # "none"
               /\ l.status = "error" =>
                    /\ l.error_message > 0
                    /\ l.response_status = 0
                    /\ l.exc = "exception" => l.error_message <= SliceLimit

\* C7: no exception leaves execute_api, whatever the configuration and the
\* collaborators' failures; the returned status is pass, fail or error, and
\* the dispatch has taken place whatever the pre-Redis rules and the pre-SQL
\* did, the pre-SQL's outcome being recorded.
C7_NoPropagation ==
    \A t \in Threads :
        /\ pc[t] # "ea_raised"
        /\ Returned(t) =>
            /\ loc[t].status \in {"pass", "fail", "error"}
            /\ Logged(loc[t], "http")
            /\ Logged(loc[t], "pre_sql") => loc[t].pre_sql_result \in SqlAnswers

\* C8: no batch has reset the variable store while another batch is between
\* the creation of its report and its finalization (at most one batch runs).
C8_OneBatchAtATime ==
    \A t1, t2 \in Threads :
        t1 # t2 =>
            ~ /\ frame[t1].kind = "batch" /\ frame[t1].report # 0
              /\ frame[t2].kind = "batch" /\ pc[t2] # "eb_reset_vars"

\* C9: the TestResult rows of a batch are in strictly ascending
\* (sort_order, id) order whatever the order of api_ids, and while the
\* pipeline of an API runs, it is a selected API with no row yet and every
\* selected API that precedes it has its row.
C9_BatchOrder ==
    /\ \A r \in DOMAIN reports :
            reports[r].kind = "batch" =>
                LET rows == RowsOf(r)
                IN \A i, j \in DOMAIN rows : i < j => Before(rows[i].api, rows[j].api)
    /\ \A t \in Threads :
            (frame[t].kind = "batch" /\ pc[t] \in PipelineStages) =>
                LET rows == RowsOf(frame[t].report)
                    done == {rows[i].api : i \in DOMAIN rows}
                IN /\ loc[t].api \notin done
                   /\ loc[t].api \in Selected(frame[t].api_ids)
                   /\ \A a \in Selected(frame[t].api_ids) :
                        Before(a, loc[t].api) => a \in done

\* a batch given <<3, 1, 2>> has executed 2, 1, 3
C9_Witness ==
    /\ pc[1] = "eb_finalize"
    /\ frame[1].api_ids = <<3, 1, 2>>
    /\ Len(RowsOf(frame[1].report)) = 3
    /\ [i \in 1..3 |-> RowsOf(frame[1].report)[i].api] = <<2, 1, 3>>

\* C10: a batch with stop_on_failure ends after the first result that is not
\* pass, and its finalized report counts the executed APIs only: total,
\* passed, failed and error are those of the rows it owns.
C10_StopOnFailure ==
    [][\A t \in Threads :
        (pc[t] = "eb_finalize" /\ pc'[t] = "idle" /\ frame[t].stop_on_failure) =>
            LET r == frame[t].report
                rows == RowsOf(r)
                Count(st) == Cardinality({i \in DOMAIN rows : rows[i].status = st})
            IN /\ \A i \in DOMAIN rows : i < Len(rows) => rows[i].status = "pass"
               /\ reports'[r].total = Len(rows)
               /\ reports'[r].passed = Count("pass")
               /\ reports'[r].failed = Count("fail")
               /\ reports'[r].error = Count("error")]_vars

\* C11: every report execute_batch creates in status running is eventually
\* completed, and a completed report is never modified again (so it is
\* finalized once).
C11_Finalized ==
    /\ \A r \in 1..MaxRuns :
            [](r \in DOMAIN reports =>
                    <>(r \in DOMAIN reports /\ reports[r].status = "completed"))
    /\ [][\A r \in DOMAIN reports :
            reports[r].status = "completed" => reports'[r] = reports[r]]_vars

\* C12: with a non-empty body_enc_rules no whole-body encryption happens,
\* even with encrypted = true and a key: the body sent is the map the field
\* rules produce from the substituted body, and body_type stays the
\* configured one.
C12_FieldRulesWin ==
    \A t \in Threads :
        (loc[t].api # 0 /\ Cfg(t).body_enc_rules # <<>>) =>
            LET l == loc[t]
                c == Cfg(t)
            IN /\ ~Logged(l, "whole_enc")
               /\ l.encrypted_body = Null
               /\ pc[t] = "ea_presql" =>
                    /\ l.body = apply_body_enc_rules(
                                    replace_vars_in_dict(c.body, l.variables),
                                    c.body_enc_rules, c.encryption_key, l.variables)
                    /\ l.body_type = c.body_type
               /\ l.sent # Null =>
                    /\ l.sent.body.t = "map"
                    /\ l.sent.body = l.request_body_raw
                    /\ l.sent.body_type = c.body_type

\* a request sent for a configuration with encrypted = true, a key and a
\* field rule: the field holds the cipher text, the body is not wrapped
C12_Witness ==
    /\ loc[1].api # 0
    /\ Cfg(1).encrypted /\ Cfg(1).encryption_key # "" /\ Cfg(1).body_enc_rules # <<>>
    /\ loc[1].sent # Null
    /\ loc[1].sent.body_type = "form"
    /\ DOMAIN loc[1].sent.body.v = {"t", "sign"}
    /\ loc[1].sent.body.v["sign"].t = "cipher"

\* C13: no two executions of run_task for the same task are in progress at
\* the same time, whichever job (recurring or one-shot) or direct call
\* started them.
C13_NoOverlap ==
    \A r1, r2 \in DOMAIN runs :
        (r1 # r2 /\ runs[r1].task = runs[r2].task) =>
            ~(Executing(runs[r1]) /\ Executing(runs[r2]))

\* C14: with the scheduler running, after every create, update, toggle and
\* delete request the recurring jobs in the job store are exactly the tasks
\* whose persisted status is active.
C14_JobsAreActiveTasks ==
    SchedulerRunning =>
        \A k \in 1..MaxTasks :
            JobId(k) \in DOMAIN instances[_scheduler].jobs
                <=> (Exists(k) /\ scheduled_tasks[k].status = "active")

\* C15: an execution of run_task is at or past the call of the batch runner
\* only if the row it loaded had status active, and every step that adds a
\* report, changes last_report_id/last_result of a task or sends a mail is a
\* step of such an execution.
C15_OnlyActiveRuns ==
    /\ [](\A r \in DOMAIN runs :
            (runs[r].pc \in {"batch", "save", "mail"} \/ runs[r].report # 0) =>
                (runs[r].obj # Null /\ runs[r].obj.status = "active"))
    /\ [][(\/ reports' # reports
           \/ mails' # mails
           \/ \E k \in DOMAIN scheduled_tasks :
                /\ Exists(k) /\ scheduled_tasks'[k] # Null
                /\ \/ scheduled_tasks'[k].last_report_id # scheduled_tasks[k].last_report_id
                   \/ scheduled_tasks'[k].last_result # scheduled_tasks[k].last_result)
          => \E r \in DOMAIN runs :
                /\ runs'[r].pc # runs[r].pc
                /\ runs[r].pc \in {"batch", "save", "mail"}
                /\ runs[r].obj.status = "active"]_vars

\* a manually triggered execution for a paused task has returned: there is
\* no report and no mail
C15_Witness ==
    /\ \E r \in DOMAIN runs :
            /\ runs[r].pc = "done" /\ runs[r].call # 0
            /\ runs[r].obj # Null /\ runs[r].obj.status = "paused"
    /\ mails = <<>>
    /\ reports = <<>>

C17_Singleton ==
    (/\ instances # <<>>
     /\ \A t \in DOMAIN starting : starting[t] = "idle"
     /\ timers = 0)
        => /\ Cardinality({i \in DOMAIN instances : instances[i].running}) = 1
           /\ loads = 1

\* C18: once a batch has ended (its report is completed and its thread has
\* returned), the runtime store is empty and no session is stored.
C18_TornDown ==
    (/\ \A t \in Threads : pc[t] = "idle"
     /\ \E r \in DOMAIN reports :
            reports[r].kind = "batch" /\ reports[r].status = "completed")
        => /\ runtime_vars = EmptyMap
           /\ session_store = EmptyMap

\* C19: when the first pipeline of a batch starts, the runtime store holds no
\* entry that was there before the batch, the session map is empty, and the
\* sessions that were stored before the reset have been closed.
C19_ResetBeforeFirst ==
    \A t \in Threads :
        (frame[t].kind = "batch" /\ pc[t] = "ea_load" /\ frame[t].idx = 1) =>
            /\ \A n \in DOMAIN runtime_vars : n \notin DOMAIN LeftVars
            /\ session_store = EmptyMap
            /\ DOMAIN LeftSessions \subseteq closed_sessions

\* C20: _replace_vars applied twice gives what it gives applied once; a text
\* without placeholders comes back unchanged, and so does a text whose
\* placeholders all have names that are not in the variables.
C20_Idempotent ==
    fn # Null =>
        /\ fn.stage = "twice" => fn.twice = fn.once
        /\ (fn.stage # "args" /\ \A i \in DOMAIN fn.text : fn.text[i].k # "ph")
                => fn.once = fn.text
        /\ (fn.stage # "args"
            /\ \A i \in DOMAIN fn.text :
                    fn.text[i].k = "ph" => fn.text[i].s \notin DOMAIN fn.variables)
                => fn.once = fn.text

\* substitution in every string at any depth of maps and lists, every other
\* scalar kept
RECURSIVE substitute_deep(_, _)
substitute_deep(x, variables) ==
    IF x.t = "str" THEN Str(_replace_vars(x.v, variables))
    ELSE IF x.t = "map"
         THEN Map([key \in DOMAIN x.v |-> substitute_deep(x.v[key], variables)])
    ELSE IF x.t = "list"
         THEN List([i \in 1..Len(x.v) |-> substitute_deep(x.v[i], variables)])
    ELSE x

\* C21: replace_vars_in_dict substitutes the placeholders of every string at
\* any nesting depth of maps and lists, a top-level list included, and
\* returns every other scalar unchanged.
C21_DeepSubstitution ==
    (fn # Null /\ fn.stage = "done") =>
        fn.out = substitute_deep(fn.data, fn.variables)

\* the number of pipeline executions a single run of row c owes
Iterations(c) == IF c.repeat_enabled THEN c.repeat_count ELSE 1

\* C22: a single run never executes more iterations than its row asks for,
\* and once the request is over there is one report whose total and whose
\* number of TestResult rows are repeat_count in repeat mode and 1 otherwise.
C22_RepeatCount ==
    /\ \A t \in Threads :
            frame[t].kind = "single" =>
                /\ frame[t].repeat_count = Iterations(apis[frame[t].api_ids[1]])
                /\ Len(frame[t].results_list) <= frame[t].repeat_count
    /\ ((\A t \in Threads : pc[t] = "idle") /\ budget < MaxRequests) =>
            /\ Len(reports) = 1
            /\ \A i \in DOMAIN RowsOf(1) :
                    reports[1].total = Iterations(apis[RowsOf(1)[i].api])
            /\ Len(RowsOf(1)) = reports[1].total

\* C23: in a single run every iteration after the first starts from the
\* variables the first iteration started from.
C23_SameSnapshot ==
    [][\A t \in Threads :
            (/\ frame[t].kind = "single" /\ frame[t].results_list # <<>>
             /\ pc[t] = "ea_load" /\ pc'[t] # "ea_load")
                => loc'[t].variables = frame[t].snapshot]_vars

\* C24: a load test that was told to stop ends gracefully: once the child
\* that stop_locust signalled has ended, it has ended with exit code 0 and
\* result.json holds the statistics it gathered, so collect can report them
C24_GracefulStop ==
    \A t \in LoadIds :
        (Known(t) /\ procs[t].signalled /\ procs[t].retcode # Null) =>
            /\ procs[t].retcode = Num(0)
            /\ work_dir[t].result.t = "list"

\* C25: get_locust_status answers not found for a task id that is not
\* registered; for a registered one whose child is alive, the status of the
\* status.json document it read, running when it could read none; for a child
\* that has ended, completed exactly when the exit code is 0 and error
\* otherwise, the error being the last TailLen lines of the log
C25_Status ==
    [][\A t \in AnyIds :
        (reply' # reply /\ reply'.op = "status" /\ reply'.task_id = t) =>
            IF ~Known(t) THEN ~reply'.found
            ELSE LET retcode == procs[t].retcode
                     log == work_dir[t].log
                     n == Min(TailLen, Len(log))
                 IN /\ reply'.found
                    /\ reply'.return_code = retcode
                    /\ reply'.live \in {Null, work_dir[t].status}
                    /\ retcode = Null =>
                            reply'.status = IF reply'.live = Null THEN "running"
                                            ELSE reply'.live.status
                    /\ retcode # Null =>
                            /\ reply'.status \in {"completed", "error"}
                            /\ reply'.status = "completed" <=> retcode = Num(0)
                            /\ reply'.status = "error" =>
                                    reply'.error = [i \in 1..n |-> log[Len(log) - n + i]]]_vars

\* a status request found the child ended by an exception that printed more
\* than TailLen lines
C25_Witness ==
    /\ reply # Null
    /\ reply.op = "status"
    /\ reply.found
    /\ reply.status = "error"
    /\ Len(reply.error) = TailLen
    /\ Len(work_dir[reply.task_id].log) > TailLen

\* C26: a collect_locust_result call for a registered task whose result.json
\* parses adds exactly one TestReport, completed, whose total and failed are
\* the requests and failures of the totals row, passed their difference and
\* error 0, and exactly one TestResult, owned by that report, per row that is
\* not the totals row; any other call fails and adds no report and no result
C26_Collect ==
    [][\A t \in AnyIds :
        (reply' # reply /\ reply'.op = "collect" /\ reply'.task_id = t) =>
            IF Known(t) /\ work_dir[t].result.t = "list"
            THEN LET rows == work_dir[t].result.v
                     totals == rows[Len(rows)]
                     id == Len(reports) + 1
                 IN /\ reply'.success
                    /\ reply'.report_id = id
                    /\ Len(reports') = id
                    /\ SubSeq(reports', 1, Len(reports)) = reports
                    /\ reports'[id].status = "completed"
                    /\ reports'[id].total = totals.num_requests
                    /\ reports'[id].failed = totals.num_failures
                    /\ reports'[id].passed = totals.num_requests - totals.num_failures
                    /\ reports'[id].error = 0
                    /\ Len(results') = Len(results) + Len(rows) - 1
                    /\ SubSeq(results', 1, Len(results)) = results
                    /\ \A i \in 1..(Len(rows) - 1) :
                            /\ results'[Len(results) + i].report = id
                            /\ results'[Len(results) + i].api_name = rows[i].name
            ELSE /\ ~reply'.success
                 /\ reports' = reports
                 /\ results' = results]_vars

\* a collect call has reported on a load test with two endpoints and a
\* failed request
C26_Witness ==
    /\ reply # Null
    /\ reply.op = "collect"
    /\ reply.success
    /\ reports[reply.report_id].failed > 0
    /\ Len(RowsOf(reply.report_id)) = 2

\* C27: the total of a TestReport made by collect_locust_result is the number
\* of TestResult rows the report owns
C27_TotalIsRowCount ==
    \A r \in DOMAIN reports :
        reports[r].kind = "load" => reports[r].total = Len(RowsOf(r))

\* C28: the list of keys a redis_scan call returns has at most ScanCap keys,
\* whatever the number of matching keys and the sizes of the cursor's batches
C28_ScanCapped ==
    (fn # Null /\ fn.stage = "returned") => fn.total <= ScanCap

\* C29: a fetch_captcha_to_global call that succeeds leaves the persisted
\* global and the runtime entry of var_name both equal to the final value
\* (the field of the JSON object when extract_field names one, the raw text
\* otherwise) and no other entry changed; a call that fails (unknown Redis
\* configuration, connection error, missing key, JSON value without the
\* field) changes neither store
C29_BothOrNeither ==
    [][(reply' # reply /\ reply'.op = "fetch_captcha") =>
        LET a == reply'.args
            ans == reply'.answer
            fails ==
                \/ a.redis_config_id \notin RedisConfigs
                \/ ans.k \in {"error", "none"}
                \/ /\ a.extract_field # ""
                   /\ ans.raw.obj # Null
                   /\ ~(ans.raw.obj.t = "map" /\ a.extract_field \in DOMAIN ans.raw.obj.v)
            final == IF a.extract_field # "" /\ ans.raw.obj # Null
                     THEN Str(StrOf(ans.raw.obj.v[a.extract_field]))
                     ELSE Str(ans.raw.text)
        IN IF fails
           THEN /\ ~reply'.success
                /\ global_vars' = global_vars
                /\ runtime_vars' = runtime_vars
           ELSE /\ reply'.success
                /\ global_vars' = Put(global_vars, a.var_name, final)
                /\ runtime_vars' = Put(runtime_vars, a.var_name, final)
                /\ global_vars'[a.var_name] = runtime_vars'[a.var_name]]_vars

\* a call has stored the field of a JSON object under a name that held
\* another value before
C29_Witness ==
    /\ reply # Null
    /\ reply.op = "fetch_captcha"
    /\ reply.success
    /\ reply.args.extract_field = "code"
    /\ reply.args.var_name = "mobile"
    /\ reply.answer.raw.obj # Null
    /\ global_vars["mobile"] = Str(T("9"))
    /\ runtime_vars["mobile"] = Str(T("9"))

\* C30: the registry entry of a batch started by POST /run/batch exists, in
\* status running, when its thread starts; when the thread has ended the
\* entry is completed with its report or error with the error text, never
\* running; and its progress never exceeds its total
C30_RegistryFollowsBatch ==
    /\ \A t \in Threads :
            (frame[t].kind = "batch" /\ frame[t].task_id # 0) =>
                /\ frame[t].task_id \in DOMAIN _batch_tasks
                /\ pc[t] = "eb_reset_vars" =>
                        _batch_tasks[frame[t].task_id] = NewTask(frame[t].api_ids)
    /\ \A k \in DOMAIN _batch_tasks :
            /\ _batch_tasks[k].progress <= _batch_tasks[k].total
            /\ _batch_tasks[k].status \in {"running", "completed", "error"}
            /\ _batch_tasks[k].status = "completed" =>
                    _batch_tasks[k].report_id \in DOMAIN reports
            /\ _batch_tasks[k].status = "error" => _batch_tasks[k].error # ""
            /\ (\A t \in Threads : frame[t].task_id # k) =>
                    _batch_tasks[k].status # "running"

-----------------------------------------------------------------------------
(* Whole-body encryption over every key and algorithm value                *)

\* ApiConfig.encryption_key is blank by default (models.py:114), BODY_TYPES
\* of models.py, and an algorithm outside the choices of the column
EncKeys == {"", "k1"}
EncAlgorithms == Algorithms \cup {"SM4"}
EncBodyTypes == {"json", "form", "text", "data", "raw"}
EncBodies == {Map("t" :> Str(<<Ph("tok")>>)), Str(<<Lit("t="), Ph("tok")>>)}

EncryptConfigs ==
    {[DefaultApi EXCEPT !.body = b, !.body_type = bt, !.encrypted = e,
                        !.encryption_key = k, !.encryption_algorithm = a] :
        b \in EncBodies, bt \in EncBodyTypes, e \in BOOLEAN,
        k \in EncKeys, a \in EncAlgorithms}
    \cup {[DefaultApi EXCEPT !.encrypted = TRUE, !.encryption_key = "k1",
                             !.extract_vars = <<NotAMap>>]}

InitEncrypt ==
    /\ InitCommon
    /\ runtime_vars = ("tok" :> Str(T("old")))
    /\ apis \in {1 :> c : c \in EncryptConfigs}
    /\ budget = MaxRequests

SpecEncrypt == InitEncrypt /\ [][NextPipeline]_vars

\* C31: with encrypted = true and no field rule, whatever the key and the
\* algorithm, the body dispatched is the cipher text of the serialized body:
\* the bare cipher text with body_type unchanged for text, data and raw, the
\* map {"encrypted": cipher text} with body_type json otherwise; the plain
\* body is never what is dispatched.
C31_CiphertextDispatched ==
    \A t \in Threads :
        (loc[t].api # 0 /\ loc[t].sent # Null
            /\ Cfg(t).encrypted /\ Cfg(t).body_enc_rules = <<>>) =>
            LET l == loc[t]
                c == Cfg(t)
                ciphertext == Cipher(c.encryption_algorithm, c.encryption_key,
                                     Serialize(l.request_body_raw))
            IN /\ l.sent.body # l.request_body_raw
               /\ IF c.body_type \in {"text", "data", "raw"}
                  THEN l.sent.body = ciphertext /\ l.sent.body_type = c.body_type
                  ELSE /\ l.sent.body = Map("encrypted" :> ciphertext)
                       /\ l.sent.body_type = "json"

\* the same for the rows that have a key and an algorithm of the column's
\* choices
C31_WithKeyAndKnownAlgorithm ==
    \A t \in Threads :
        (loc[t].api # 0 /\ loc[t].sent # Null
            /\ Cfg(t).encrypted /\ Cfg(t).body_enc_rules = <<>>
            /\ Cfg(t).encryption_key # ""
            /\ Cfg(t).encryption_algorithm \in Algorithms) =>
            LET l == loc[t]
                c == Cfg(t)
                ciphertext == Cipher(c.encryption_algorithm, c.encryption_key,
                                     Serialize(l.request_body_raw))
            IN /\ l.sent.body # l.request_body_raw
               /\ IF c.body_type \in {"text", "data", "raw"}
                  THEN l.sent.body = ciphertext /\ l.sent.body_type = c.body_type
                  ELSE /\ l.sent.body = Map("encrypted" :> ciphertext)
                       /\ l.sent.body_type = "json"

\* encrypted = true with a blank key: the plain body is dispatched
C31_PlainWithBlankKey ==
    ~(/\ loc[1].api # 0 /\ loc[1].sent # Null
      /\ Cfg(1).encrypted /\ Cfg(1).encryption_key = ""
      /\ Cfg(1).encryption_algorithm = "BASE64"
      /\ loc[1].sent.body = loc[1].request_body_raw)

\* encrypted = true with a key and an algorithm encrypt_body does not know
C31_PlainWithUnknownAlgorithm ==
    ~(/\ loc[1].api # 0 /\ loc[1].sent # Null
      /\ Cfg(1).encrypted /\ Cfg(1).encryption_key # ""
      /\ Cfg(1).encryption_algorithm \notin Algorithms
      /\ Cfg(1).body_type = "text"
      /\ loc[1].sent.body = Serialize(loc[1].request_body_raw))

-----------------------------------------------------------------------------
(* The two request builders of executor.py                                 *)

\* every variable but fn at rest: the state a pure function is called in
InitIdle ==
    /\ InitScheduler
    /\ InitLocust
    /\ _batch_tasks = <<>>
    /\ closed_sessions = {}
    /\ runtime_vars = EmptyMap
    /\ session_store = EmptyMap
    /\ global_vars = EmptyMap
    /\ apis = EmptyMap
    /\ reports = <<>>
    /\ results = <<>>
    /\ pc = [t \in Threads |-> "idle"]
    /\ frame = [t \in Threads |-> IdleFrame]
    /\ loc = [t \in Threads |-> IdleLoc]
    /\ budget = 0

\* a keyword argument that is not passed
Absent == [t |-> "absent"]
\* repr of a value that is no str
Repr(x) == [t |-> "repr", v |-> x]

\* here a str is the sequence of its characters
IsStr(x) == x.t \in {"str", "json"}
\* v in ('', None)
Blank(x) == x = Null \/ x = Str(<<>>)
\* not x
Falsy(x) == x \in {Null, Str(<<>>), Map(EmptyMap), List(<<>>), Num(0)}
\* str(x)
PyStr(x) == IF IsStr(x) THEN x ELSE IF x = Null THEN Str(<<"None">>) ELSE Repr(x)
\* str(x or '')
PyStrOrEmpty(x) == IF Falsy(x) THEN Str(<<>>) ELSE PyStr(x)

HasChar(s, ch) == \E i \in DOMAIN s : s[i] = ch

RECURSIVE rstrip(_, _)
rstrip(s, ch) ==
    IF s # <<>> /\ s[Len(s)] = ch THEN rstrip(SubSeq(s, 1, Len(s) - 1), ch) ELSE s

RECURSIVE lstrip(_, _)
lstrip(s, ch) == IF s # <<>> /\ Head(s) = ch THEN lstrip(Tail(s), ch) ELSE s

strip(s, ch) == rstrip(lstrip(s, ch), ch)

\* {k: v for k, v in params.items() if v not in ('', None)}
NotBlank(m) == [k \in {x \in DOMAIN m : ~Blank(m[x])} |-> m[k]]
\* {k: str(v) for k, v in body.items()}
StrValues(m) == [k \in DOMAIN m |-> PyStr(m[k])]

\* lines 375-382 and 474-478: the URL with the value of the _raw entry
raw_url(url, raw) ==
    LET raw_val == strip(PyStr(raw).v, "/")
        sep == IF HasChar(url, "?") THEN "&" ELSE "?"
    IN IF HasChar(raw_val, "=") THEN url \o <<sep>> \o raw_val
       ELSE rstrip(url, "/") \o <<"/">> \o raw_val

\* body in ({}, '', None, [])
body_is_empty(body) == body \in {Map(EmptyMap), Str(<<>>), Null, List(<<>>)}

\* the extra query entries of body_type params
params_extra(body) ==
    IF body.t = "map" THEN StrValues(NotBlank(body.v))
    ELSE IF body.t = "json" /\ body.v.t = "map" THEN StrValues(body.v.v)
    ELSE EmptyMap

\* text_val of body_type text
text_val(body) ==
    IF IsStr(body) THEN body
    ELSE IF body.t \in {"map", "list"} THEN Dumps(body)
    ELSE PyStrOrEmpty(body)

\* the request without a body
Bare(url, headers, params) ==
    [url |-> url, headers |-> headers, params |-> params,
     json |-> Absent, data |-> Absent, files |-> Absent]

WithContentType(kw, value) ==
    IF "Content-Type" \in DOMAIN kw.headers THEN kw
    ELSE [kw EXCEPT !.headers = Put(@, "Content-Type", value)]

\* executor._build_request_kwargs; on_disk is os.path.isfile of the uploads
_build_request_kwargs(url, headers, params, body, body_type, on_disk) ==
    LET kwargs == Bare(IF "_raw" \in DOMAIN params THEN raw_url(url, params["_raw"])
                                                   ELSE url,
                       headers, NotBlank(Remove(params, "_raw")))
    IN CASE body_type = "json" ->
                IF body_is_empty(body) THEN kwargs ELSE [kwargs EXCEPT !.json = body]
         [] body_type = "data" ->
                [kwargs EXCEPT !.data = IF body.t = "map" \/ IsStr(body) THEN body
                                        ELSE PyStrOrEmpty(body)]
         [] body_type = "params" ->
                [kwargs EXCEPT !.params = Update(@, params_extra(body))]
         [] body_type = "form" ->
                IF body_is_empty(body) THEN kwargs
                ELSE [kwargs EXCEPT !.data = IF body.t = "map" THEN Map(StrValues(body.v))
                                             ELSE Map(EmptyMap)]
         [] body_type = "text" ->
                IF text_val(body) = Str(<<>>) THEN kwargs
                ELSE WithContentType([kwargs EXCEPT !.data = text_val(body)],
                                     "text/plain; charset=utf-8")
         [] body_type = "raw" ->
                IF body_is_empty(body) THEN kwargs
                ELSE IF body.t \in {"map", "list"}
                THEN WithContentType([kwargs EXCEPT !.data = Dumps(body)],
                                     "application/json")
                ELSE [kwargs EXCEPT !.data = PyStr(body)]
         [] body_type = "files" ->
                LET body_copy == IF body.t = "map" THEN Remove(body.v, "__files__")
                                 ELSE EmptyMap
                    raw_files == IF body.t = "map" /\ "__files__" \in DOMAIN body.v
                                 THEN body.v["__files__"].v ELSE <<>>
                    files_list == IF on_disk THEN raw_files ELSE <<>>
                IN [kwargs EXCEPT
                        !.files = IF files_list # <<>> THEN List(files_list) ELSE Absent,
                        !.data = IF body_copy # EmptyMap THEN Map(StrValues(body_copy))
                                 ELSE Absent]
         [] OTHER ->
                IF body_is_empty(body) THEN kwargs ELSE [kwargs EXCEPT !.json = body]

\* executor._do_async_request up to client.request: content = the UTF-8
\* bytes of a str is the body data = that str gives, and is kept as data
_do_async_request(url, headers, params0, body, body_type) ==
    LET params == NotBlank(params0)
        kw == Bare(IF "_raw" \in DOMAIN params THEN raw_url(url, params["_raw"]) ELSE url,
                   headers, NotBlank(Remove(params, "_raw")))
    IN CASE body_type = "json" ->
                IF body_is_empty(body) THEN kw ELSE [kw EXCEPT !.json = body]
         [] body_type = "data" ->
                [kw EXCEPT !.data = IF body.t = "map" \/ IsStr(body) THEN body
                                    ELSE PyStrOrEmpty(body)]
         [] body_type = "params" ->
                [kw EXCEPT !.params = Update(@, params_extra(body))]
         [] body_type = "form" ->
                IF body_is_empty(body) THEN kw
                ELSE [kw EXCEPT !.data = IF body.t = "map" THEN Map(StrValues(body.v))
                                         ELSE Map(EmptyMap)]
         [] body_type = "text" ->
                IF text_val(body) = Str(<<>>) THEN kw
                ELSE WithContentType([kw EXCEPT !.data = text_val(body)],
                                     "text/plain; charset=utf-8")
         [] body_type = "raw" ->
                IF body_is_empty(body) THEN kw
                ELSE WithContentType(
                        [kw EXCEPT !.data = IF body.t \in {"map", "list"}
                                            THEN Dumps(body) ELSE PyStr(body)],
                        "application/json")
         [] OTHER ->
                IF body_is_empty(body) THEN kw ELSE [kw EXCEPT !.json = body]

\* the arguments of one dispatch
Urls == {<<"h">>, <<"h", "/">>, <<"h", "?", "q">>}
RawValues == {Str(<<>>), Null, Str(<<"u">>), Str(<<"/", "u", "/">>),
              Str(<<"a", "=", "1">>)}
PlainParams == {EmptyMap, "p" :> Str(<<"1">>),
                ("p" :> Str(<<"1">>)) @@ ("e" :> Str(<<>>))}
ParamMaps == PlainParams \cup {Put(p, "_raw", raw) : p \in PlainParams, raw \in RawValues}
HeaderMaps == {EmptyMap, "Content-Type" :> Str(<<"x">>)}
Uploads == List(<<Map("path" :> Str(<<"f">>))>>)
Bodies == {Null, Map(EmptyMap), Str(<<>>), List(<<>>), Num(7),
           Map("k" :> Num(1)), Map(("k" :> Num(1)) @@ ("e" :> Str(<<>>))),
           Str(<<"x">>), Dumps(Map("k" :> Num(1))), List(<<Num(1)>>),
           Map(("k" :> Num(1)) @@ ("__files__" :> Uploads))}
BodyTypes == {"json", "data", "params", "form", "text", "raw", "files"}

InitRequest ==
    /\ InitIdle
    /\ fn \in [stage : {"args"}, url : Urls, headers : HeaderMaps, params : ParamMaps,
               body : Bodies, body_type : BodyTypes \cup {"xml"}, on_disk : BOOLEAN,
               sync : {Null}, async : {Null}]

\* kw = _build_request_kwargs(...) of _do_sync_request
build_sync ==
    /\ fn # Null
    /\ fn.stage = "args"
    /\ fn' = [fn EXCEPT !.stage = "sync",
                        !.sync = _build_request_kwargs(fn.url, fn.headers, fn.params,
                                                       fn.body, fn.body_type, fn.on_disk)]
    /\ PureFrame

\* the same arguments given to _do_async_request
build_async ==
    /\ fn # Null
    /\ fn.stage = "sync"
    /\ fn' = [fn EXCEPT !.stage = "both",
                        !.async = _do_async_request(fn.url, fn.headers, fn.params,
                                                    fn.body, fn.body_type)]
    /\ PureFrame

NextRequest == build_sync \/ build_async

SpecRequest == InitRequest /\ [][NextRequest]_vars

\* C32: for every input the asynchronous dispatcher builds the request the
\* synchronous builder builds: the same final URL, the same query
\* parameters, the same headers and the same body framing, for each of the
\* seven body types.
C32_SameRequest ==
    (fn # Null /\ fn.stage = "both") => fn.async = fn.sync

\* the query parameters are the same for every input
C32_SameParams ==
    (fn # Null /\ fn.stage = "both") => fn.async.params = fn.sync.params

\* the two requests are the same but for three kinds of input: a _raw entry
\* that is '' or None, body_type raw with a body that is no map and no list,
\* and body_type files
C32_SameButForThree ==
    (/\ fn # Null /\ fn.stage = "both"
     /\ ~("_raw" \in DOMAIN fn.params /\ Blank(fn.params["_raw"]))
     /\ ~(fn.body_type = "raw" /\ fn.body.t \notin {"map", "list"})
     /\ fn.body_type # "files")
        => fn.async = fn.sync

\* a blank _raw entry: only the synchronous URL gets the trailing slash
C32_UrlDiffers ==
    ~(/\ fn # Null /\ fn.stage = "both" /\ fn.body_type = "json"
      /\ fn.url = <<"h">> /\ "_raw" \in DOMAIN fn.params
      /\ fn.params["_raw"] = Str(<<>>)
      /\ fn.sync.url = <<"h", "/">> /\ fn.async.url = <<"h">>)

\* body_type raw with a str body: only the asynchronous request gets the
\* Content-Type header
C32_HeadersDiffer ==
    ~(/\ fn # Null /\ fn.stage = "both" /\ fn.body_type = "raw"
      /\ fn.body = Str(<<"x">>) /\ fn.headers = EmptyMap
      /\ fn.sync.headers = EmptyMap
      /\ fn.async.headers = ("Content-Type" :> "application/json"))

\* body_type files: multipart and form fields against a JSON body
C32_FramingDiffers ==
    ~(/\ fn # Null /\ fn.stage = "both" /\ fn.body_type = "files" /\ fn.on_disk
      /\ fn.sync.files # Absent /\ fn.sync.data # Absent /\ fn.sync.json = Absent
      /\ fn.async.files = Absent /\ fn.async.data = Absent /\ fn.async.json = fn.body)

-----------------------------------------------------------------------------
(* Keyed sessions: _get_session, _do_sync_request and reset_runtime_vars   *)

\* In this specification _session_store maps an api id to the identity of
\* its requests.Session object (a number, fresh at construction) and
\* closed_sessions holds the identities reset_runtime_vars has closed.
\* fn holds the threads' positions in _do_sync_request and the history of
\* the dispatches: next, the identity the next Session() gets; epoch, the
\* number of resets so far; made, the sessions constructed; used, one
\* record per request sent.
MaxDispatches == 3
MaxResets == 2
\* 0 is the id of a row that is not saved (api_id is falsy)
SessionApis == {0, 1, 2}
\* the requests module itself: no Session object
AdHoc == 0

\* a _get_session that constructs a Session on every call
get_session_always_new(store, api_id, fresh) == Put(store, api_id, fresh)

\* executor._get_session, the body of "with _session_lock"
get_session(store, api_id, fresh) ==
    IF api_id \notin DOMAIN store THEN Put(store, api_id, fresh) ELSE store

InitSession ==
    /\ InitIdle
    /\ fn = [next |-> 1, epoch |-> 0, left |-> MaxDispatches, made |-> {}, used |-> {},
             at |-> [t \in Threads |-> [pc |-> "idle", api_id |-> 0,
                                        use_session |-> FALSE, sess |-> AdHoc,
                                        epoch |-> 0, stored |-> FALSE]]]

SessionFrame ==
    UNCHANGED <<runtime_vars, global_vars, apis, reports, results, pc, frame, loc,
                budget, sched_vars, load_vars, _batch_tasks>>

\* line 454: a thread enters _do_sync_request and has built the kwargs
sync_enter(t, api_id, use_session) ==
    /\ fn.at[t].pc = "idle"
    /\ fn.left > 0
    /\ fn' = [fn EXCEPT !.left = @ - 1,
                        !.at[t] = [pc |-> "session", api_id |-> api_id,
                                   use_session |-> use_session, sess |-> AdHoc,
                                   epoch |-> fn.epoch, stored |-> FALSE]]
    /\ UNCHANGED <<session_store, closed_sessions>>
    /\ SessionFrame

\* line 457: sess = _get_session(api_id) if (use_session and api_id) else requests
sync_session(t) ==
    /\ fn.at[t].pc = "session"
    /\ LET a == fn.at[t]
       IN IF a.use_session /\ a.api_id # 0
          THEN /\ session_store' = get_session(session_store, a.api_id, fn.next)
               /\ fn' = [fn EXCEPT
                            !.next = IF session_store' # session_store THEN @ + 1 ELSE @,
                            !.made = IF session_store' # session_store
                                     THEN @ \cup {[api_id |-> a.api_id, sess |-> fn.next]}
                                     ELSE @,
                            !.at[t] = [a EXCEPT !.pc = "request",
                                                !.sess = session_store'[a.api_id],
                                                !.epoch = fn.epoch,
                                                !.stored = session_store' # session_store]]
          ELSE /\ session_store' = session_store
               /\ fn' = [fn EXCEPT !.at[t] = [a EXCEPT !.pc = "request", !.sess = AdHoc,
                                                       !.epoch = fn.epoch]]
    /\ UNCHANGED closed_sessions
    /\ SessionFrame

\* line 458: resp = sess.request(...)
sync_request(t) ==
    /\ fn.at[t].pc = "request"
    /\ LET a == fn.at[t]
       IN fn' = [fn EXCEPT
                    !.used = @ \cup {[api_id |-> a.api_id, use_session |-> a.use_session,
                                      sess |-> a.sess, got |-> a.epoch,
                                      sent |-> fn.epoch, stored |-> a.stored,
                                      closed |-> a.sess \in closed_sessions]},
                    !.at[t] = [a EXCEPT !.pc = "idle"]]
    /\ UNCHANGED <<session_store, closed_sessions>>
    /\ SessionFrame

\* executor.reset_runtime_vars, called by the thread of a batch
reset_sessions ==
    /\ fn.epoch < MaxResets
    /\ runtime_vars' = EmptyMap
    /\ closed_sessions' = closed_sessions \cup {session_store[k] : k \in DOMAIN session_store}
    /\ session_store' = EmptyMap
    /\ fn' = [fn EXCEPT !.epoch = @ + 1]
    /\ UNCHANGED <<global_vars, apis, reports, results, pc, frame, loc,
                   budget, sched_vars, load_vars, _batch_tasks>>

NextSession ==
    \/ \E t \in Threads, api_id \in SessionApis, use_session \in BOOLEAN :
            sync_enter(t, api_id, use_session)
    \/ \E t \in Threads : sync_session(t)
    \/ \E t \in Threads : sync_request(t)
    \/ reset_sessions

SpecSession == InitSession /\ [][NextSession]_vars

\* the sessions constructed for api_id that no reset has closed
OpenSessions(api_id) ==
    {m.sess : m \in {x \in fn.made : x.api_id = api_id /\ x.sess \notin closed_sessions}}

\* C33: the dispatches with use_session for one api_id that lie between the
\* same two resets use one and the same session object; there is never more
\* than one live session per api_id, and it is the one the map holds; a
\* dispatch without use_session (or without an api id) stores no session
\* and uses none.
C33_OneSessionPerApi ==
    /\ \A d1, d2 \in fn.used :
            (/\ d1.use_session /\ d2.use_session
             /\ d1.api_id # 0 /\ d1.api_id = d2.api_id
             /\ d1.got = d1.sent /\ d2.got = d2.sent /\ d1.got = d2.got)
                => d1.sess = d2.sess /\ d1.sess # AdHoc
    /\ \A api_id \in SessionApis :
            /\ Cardinality(OpenSessions(api_id)) <= 1
            /\ OpenSessions(api_id) =
                    IF api_id \in DOMAIN session_store THEN {session_store[api_id]} ELSE {}
    /\ \A d \in fn.used :
            (~d.use_session \/ d.api_id = 0) => d.sess = AdHoc /\ ~d.stored

\* two threads dispatched the same api id with use_session between the same
\* two resets, one of them constructing the session, and a dispatch without
\* use_session of that api id went out ad hoc in between
C33_Witness ==
    \E d1, d2, d3 \in fn.used :
        /\ d1.use_session /\ d2.use_session /\ ~d3.use_session
        /\ d1.api_id = 1 /\ d2.api_id = 1 /\ d3.api_id = 1
        /\ d1.got = 1 /\ d1.sent = 1 /\ d2.got = 1 /\ d2.sent = 1
        /\ d1.stored /\ ~d2.stored
        /\ d1.sess = d2.sess /\ d3.sess = AdHoc

\* a dispatch that a reset overtakes between _get_session and the request
\* sends on a session the reset has closed
C33_NoClosedSessionUsed ==
    \A d \in fn.used : ~d.closed

-----------------------------------------------------------------------------
(* db_utils.run_db_assertions, rule by rule, with its connection cache     *)

MaxRules == 3
\* DatabaseConfig rows exist for these ids; 9 names no row
DbIds == {1, 2}

Check(field, operator, expected) ==
    [field |-> field, operator |-> operator, expected |-> expected]

\* a rule in the old format (fields = <<>>) or with a list of field checks
AssertRule(db_id, sql, fields, legacy) ==
    [wf |-> TRUE, db_id |-> db_id, sql |-> sql, fields |-> fields,
     field |-> legacy.field, operator |-> legacy.operator, expected |-> legacy.expected]

AssertRules ==
    {AssertRule(1, T("q"), <<Check("cnt", "==", T("1")), Check("name", "not_empty", <<>>)>>,
                Check("", "==", <<>>)),
     AssertRule(2, T("q"), <<Check("gone", "not_empty", <<>>), Check("cnt", "!=", T("0"))>>,
                Check("", "==", <<>>)),
     AssertRule(1, T("q"), <<>>, Check("cnt", "==", T("1"))),
     AssertRule(2, T("q"), <<>>, Check("", "not_empty", <<>>)),
     AssertRule(0, T("q"), <<>>, Check("cnt", "==", T("1"))),
     AssertRule(1, <<>>, <<>>, Check("cnt", "==", T("1"))),
     AssertRule(9, T("q"), <<>>, Check("cnt", "==", T("1"))),
     [wf |-> FALSE]}

\* the first row of a DictCursor: its columns in order, None when no row
Column(name, value) == [name |-> name, value |-> value]
Row(columns) == [t |-> "row", columns |-> columns]
FirstRows ==
    {Null,
     Row(<<Column("cnt", Num(1)), Column("name", Str(T("a")))>>),
     Row(<<Column("cnt", Num(0)), Column("name", Str(<<>>))>>),
     Row(<<Column("cnt", Null), Column("name", Str(T("a")))>>)}
SqlError == [t |-> "sql_err"]

HasColumn(row, name) == \E i \in DOMAIN row.columns : row.columns[i].name = name
ColumnOf(row, name) ==
    row.columns[CHOOSE i \in DOMAIN row.columns : row.columns[i].name = name].value

\* lines 254-264: the value a field check looks at
field_actual(row, field_name) ==
    IF row = Null THEN Null
    ELSE IF field_name # "" /\ HasColumn(row, field_name) THEN ColumnOf(row, field_name)
    ELSE IF field_name # "" THEN Null
    ELSE row.columns[1].value

\* lines 266-267
check_passed(fc, actual) ==
    IF actual = Null THEN FALSE ELSE Operate(fc.operator, actual, fc.expected)

\* lines 226-236
field_checks(rule) ==
    IF rule.fields # <<>> THEN rule.fields
    ELSE <<Check(rule.field, rule.operator, rule.expected)>>

sub_results(rule, row) ==
    [j \in DOMAIN field_checks(rule) |->
        LET fc == field_checks(rule)[j]
            actual == field_actual(row, fc.field)
        IN [field |-> fc.field, operator |-> fc.operator, actual |-> actual,
            passed |-> check_passed(fc, actual)]]

\* a rule that passes as soon as one of its checks does
rule_passed_any(sub) == \E j \in DOMAIN sub : sub[j].passed
\* line 283: bool(sub_results) and all(s['passed'] for s in sub_results)
rule_passed(sub) == sub # <<>> /\ \A j \in DOMAIN sub : sub[j].passed

\* item of a rule that ends in "continue"
FailedItem(why) ==
    [why |-> why, passed |-> FALSE, row |-> Null, field_results |-> <<>>, conn |-> 0]

Cached(cache, db_id) == \E i \in DOMAIN cache : cache[i].db_id = db_id
CacheOf(cache, db_id) == cache[CHOOSE i \in DOMAIN cache : cache[i].db_id = db_id]

RuleLists == UNION {[1..n -> AssertRules] : n \in 0..MaxRules}

\* fn.conn_cache keeps the dict's insertion order; conn = 0 is None
InitDbAssert ==
    /\ InitIdle
    /\ fn \in [stage : {"loop"}, rules : RuleLists, i : {1}, results : {<<>>},
               conn_cache : {<<>>}, closed : {<<>>}]

\* one pass of the loop of lines 214-297 for a rule that is a dict
\* connect: what get_connection gives for a db_id not yet in the cache
\* answer: what cur.execute and cur.fetchone give
dba_rule(connect_ok, answer) ==
    /\ fn # Null /\ fn.stage = "loop" /\ fn.i <= Len(fn.rules)
    /\ fn.rules[fn.i].wf
    /\ LET rule == fn.rules[fn.i]
           complete == rule.db_id # 0 /\ rule.sql # <<>>
           cache == IF ~complete \/ Cached(fn.conn_cache, rule.db_id) THEN fn.conn_cache
                    ELSE Append(fn.conn_cache,
                            IF rule.db_id \in DbIds /\ connect_ok
                            THEN [db_id |-> rule.db_id, conn |-> Len(fn.conn_cache) + 1,
                                  err |-> FALSE]
                            ELSE [db_id |-> rule.db_id, conn |-> 0, err |-> TRUE])
           item == IF ~complete THEN FailedItem("incomplete")
                   ELSE IF CacheOf(cache, rule.db_id).err THEN FailedItem("conn_err")
                   ELSE IF answer = SqlError
                   THEN [FailedItem("sql_err") EXCEPT !.conn = CacheOf(cache, rule.db_id).conn]
                   ELSE [why |-> "checked", passed |-> rule_passed(sub_results(rule, answer)),
                         row |-> answer, field_results |-> sub_results(rule, answer),
                         conn |-> CacheOf(cache, rule.db_id).conn]
       IN fn' = [fn EXCEPT !.i = @ + 1, !.conn_cache = cache,
                           !.results = Append(@, item)]
    /\ PureFrame

\* rule.get on an element that is no dict raises out of the loop
dba_raise ==
    /\ fn # Null /\ fn.stage = "loop" /\ fn.i <= Len(fn.rules)
    /\ ~fn.rules[fn.i].wf
    /\ fn' = [fn EXCEPT !.stage = "finally_raising"]
    /\ PureFrame

\* the loop is over
dba_done ==
    /\ fn # Null /\ fn.stage = "loop" /\ fn.i > Len(fn.rules)
    /\ fn' = [fn EXCEPT !.stage = "finally"]
    /\ PureFrame

\* lines 294-298: conn_cache.values() in insertion order, one close per step
dba_close ==
    /\ fn # Null /\ fn.stage \in {"finally", "finally_raising"}
    /\ LET live == SelectSeq(fn.conn_cache, LAMBDA e : e.conn # 0)
       IN IF Len(fn.closed) < Len(live)
          THEN fn' = [fn EXCEPT !.closed = Append(@, live[Len(fn.closed) + 1].conn)]
          ELSE fn' = [fn EXCEPT !.stage = IF fn.stage = "finally" THEN "returned"
                                          ELSE "raised"]
    /\ PureFrame

NextDbAssert ==
    \/ \E connect_ok \in BOOLEAN, answer \in FirstRows \cup {SqlError} :
            dba_rule(connect_ok, answer)
    \/ dba_raise
    \/ dba_done
    \/ dba_close

SpecDbAssert == InitDbAssert /\ [][NextDbAssert]_vars

\* the connections opened so far, in the order of opening
Opened == [i \in DOMAIN SelectSeq(fn.conn_cache, LAMBDA e : e.conn # 0) |->
                SelectSeq(fn.conn_cache, LAMBDA e : e.conn # 0)[i].conn]
Reverse(s) == [i \in DOMAIN s |-> s[Len(s) + 1 - i]]

\* C34: a rule with several field checks passes iff every one of them
\* passes; a check whose field is not in the first row, or whose query gave
\* no row, has actual = null and fails, not_empty included; a rule that
\* cannot be evaluated (no db_id or sql, unknown configuration, connection
\* or SQL error) is reported as failed, and the rules after it are evaluated.
C34_RuleVerdicts ==
    fn # Null =>
        /\ \A k \in DOMAIN fn.results :
            LET item == fn.results[k]
                rule == fn.rules[k]
            IN /\ item.why = "checked" =>
                    /\ Len(item.field_results) = Len(field_checks(rule))
                    /\ item.passed <=>
                            \A j \in DOMAIN item.field_results : item.field_results[j].passed
                    /\ \A j \in DOMAIN item.field_results :
                        LET fc == field_checks(rule)[j]
                            sub == item.field_results[j]
                        IN /\ (item.row = Null
                                \/ (fc.field # "" /\ ~HasColumn(item.row, fc.field)))
                                    => sub.actual = Null
                           /\ sub.actual = Null => ~sub.passed
                           /\ sub.actual # Null =>
                                (sub.passed <=> Operate(fc.operator, sub.actual, fc.expected))
               /\ (rule.db_id = 0 \/ rule.sql = <<>> \/ rule.db_id \notin DbIds)
                    => item.why # "checked"
               /\ item.why # "checked" => ~item.passed /\ item.field_results = <<>>
        /\ fn.stage = "returned" => Len(fn.results) = Len(fn.rules)

\* a call that returned three results: a rule that could not be evaluated,
\* then a multi-field rule that failed on a missing field alone, then a
\* multi-field rule that passed
C34_Witness ==
    /\ fn # Null /\ fn.stage = "returned" /\ Len(fn.results) = 3
    /\ fn.results[1].why \in {"sql_err", "conn_err", "incomplete"}
    /\ fn.results[2].why = "checked" /\ ~fn.results[2].passed
    /\ Len(fn.results[2].field_results) = 2
    /\ fn.results[2].field_results[1].actual = Null
    /\ fn.results[2].field_results[1].operator = "not_empty"
    /\ fn.results[2].field_results[2].passed
    /\ fn.results[3].why = "checked" /\ fn.results[3].passed
    /\ Len(fn.results[3].field_results) = 2

\* one connection per db_id, used by every rule of that db_id
C35_OnePerDbReused ==
    fn # Null =>
        /\ \A i, j \in DOMAIN fn.conn_cache :
                fn.conn_cache[i].db_id = fn.conn_cache[j].db_id => i = j
        /\ \A k \in DOMAIN fn.results :
                fn.results[k].why \in {"checked", "sql_err"} =>
                    /\ Cached(fn.conn_cache, fn.rules[k].db_id)
                    /\ fn.results[k].conn = CacheOf(fn.conn_cache, fn.rules[k].db_id).conn
                    /\ fn.results[k].conn # 0

\* every connection opened is closed, once, when the call returns or raises
C35_AllClosed ==
    (fn # Null /\ fn.stage \in {"returned", "raised"}) =>
        /\ Len(fn.closed) = Len(Opened)
        /\ {fn.closed[i] : i \in DOMAIN fn.closed} = {Opened[i] : i \in DOMAIN Opened}

\* C35: within one call at most one connection is opened per db_id and all
\* rules of that db_id use it; every connection opened is closed before the
\* call returns, on every exit path; the connections are closed in the
\* reverse order of their opening.
C35_Connections ==
    /\ C35_OnePerDbReused
    /\ C35_AllClosed
    /\ (fn # Null /\ fn.stage \in {"returned", "raised"}) => fn.closed = Reverse(Opened)

\* the connections are closed in the order of their opening
C35_ClosedInOpeningOrder ==
    (fn # Null /\ fn.stage \in {"returned", "raised"}) => fn.closed = Opened

\* two connections were opened, and the call is over
C35_TwoClosed ==
    ~(fn # Null /\ fn.stage \in {"returned", "raised"} /\ Len(Opened) = 2)

-----------------------------------------------------------------------------
(* db_utils.execute_sql_statements                                         *)

MaxStatements == 3
\* sql_text.split(';'): each piece is blank or a statement of one type
SqlPieces == {"", "SELECT", "DML", "DDL"}
SqlTexts == UNION {[1..n -> SqlPieces] : n \in 1..MaxStatements}

\* raw_stmts of line 82: the positions of the pieces that are not blank
RECURSIVE raw_stmts(_, _)
raw_stmts(sql_text, from) ==
    IF from > Len(sql_text) THEN <<>>
    ELSE IF sql_text[from] = "" THEN raw_stmts(sql_text, from + 1)
    ELSE <<from>> \o raw_stmts(sql_text, from + 1)

\* a success that looks at the last statement only
all_ok_last(statements) ==
    statements = <<>> \/ statements[Len(statements)].error = <<>>
\* line 106: all(not r['error'] for r in results)
all_ok(statements) == \A k \in DOMAIN statements : statements[k].error = <<>>

\* str(e) of a database error: the error number and its text
DbError == T("(1064, 'syntax')")

\* fn.conn is "none", "open" or "closed"; fn.raised holds the positions of
\* the pieces whose cur.execute raised; fn.ret is the value returned
InitSql ==
    /\ InitIdle
    /\ fn \in [stage : {"connect"}, sql_text : SqlTexts, conn : {"none"}, todo : {<<>>},
               results : {<<>>}, raised : {{}}, ret : {Null}]

\* lines 77-79
ess_connect(ok) ==
    /\ fn # Null /\ fn.stage = "connect"
    /\ IF ok
       THEN fn' = [fn EXCEPT !.stage = "cursor", !.conn = "open",
                             !.todo = raw_stmts(fn.sql_text, 1)]
       ELSE fn' = [fn EXCEPT !.stage = "returned",
                             !.ret = [success |-> FALSE, statements |-> <<>>,
                                      error |-> T("conn")]]
    /\ PureFrame

\* line 86: conn.cursor(); a failure is caught at line 101, and line 104
\* closes the connection
ess_cursor(ok) ==
    /\ fn # Null /\ fn.stage = "cursor"
    /\ IF ok
       THEN fn' = [fn EXCEPT !.stage = "loop"]
       ELSE fn' = [fn EXCEPT !.stage = "returned", !.conn = "closed",
                             !.ret = [success |-> FALSE, statements |-> fn.results,
                                      error |-> DbError]]
    /\ PureFrame

\* lines 87-100: one statement
ess_statement(ok) ==
    /\ fn # Null /\ fn.stage = "loop" /\ fn.todo # <<>>
    /\ LET at == Head(fn.todo)
           item == [sql |-> at, type |-> fn.sql_text[at],
                    error |-> IF ok THEN <<>> ELSE DbError]
       IN fn' = [fn EXCEPT !.todo = Tail(@), !.results = Append(@, item),
                           !.raised = IF ok THEN @ ELSE @ \cup {at}]
    /\ PureFrame

\* the end of the with block (the cursor is closed, which can fail), the
\* finally of line 104, and the return of lines 102 or 106-107
ess_return(ok) ==
    /\ fn # Null /\ fn.stage = "loop" /\ fn.todo = <<>>
    /\ fn' = [fn EXCEPT !.stage = "returned", !.conn = "closed",
                        !.ret = IF ok
                                THEN [success |-> all_ok(fn.results),
                                      statements |-> fn.results, error |-> <<>>]
                                ELSE [success |-> FALSE, statements |-> fn.results,
                                      error |-> DbError]]
    /\ PureFrame

NextSql ==
    \/ \E ok \in BOOLEAN : ess_connect(ok)
    \/ \E ok \in BOOLEAN : ess_cursor(ok)
    \/ \E ok \in BOOLEAN : ess_statement(ok)
    \/ \E ok \in BOOLEAN : ess_return(ok)

SpecSql == InitSql /\ [][NextSql]_vars

\* the statements of the result are the non-blank pieces in order, each
\* with an error exactly when its execution raised, and success is true
\* exactly when none of them has an error
Faithful(ret) ==
    /\ [k \in DOMAIN ret.statements |-> ret.statements[k].sql] = raw_stmts(fn.sql_text, 1)
    /\ \A k \in DOMAIN ret.statements :
            /\ ret.statements[k].type = fn.sql_text[ret.statements[k].sql]
            /\ ret.statements[k].error # <<>> <=> ret.statements[k].sql \in fn.raised
    /\ ret.success <=> \A k \in DOMAIN ret.statements : ret.statements[k].error = <<>>

-----------------------------------------------------------------------------
(* scheduler._add_job for a cron task: the fields of cron_expr             *)

MaxFields == 7
\* what a field of cron_expr can hold: a wildcard, a number every position
\* takes, and text APScheduler's CronTrigger rejects in every position
CronValues == {"*", "5", "x"}
CronExprs == UNION {[1..n -> CronValues] : n \in 0..MaxFields}
\* line 150
CronDefault == <<"0", "9", "*", "*", "*">>

\* lines 144-150: minute, hour, day, month, day_of_week
cron_fields(parts) ==
    IF Len(parts) = 5 THEN parts
    ELSE IF Len(parts) = 6 THEN Tail(parts)
    ELSE CronDefault

\* add_job(..., 'cron', minute=..., ...) does not raise
accepted(fields) == \A i \in DOMAIN fields : fields[i] # "x"

\* an expression of 5 or 6 fields, each of them valid
WellFormed(parts) == Len(parts) \in {5, 6} /\ accepted(parts)

\* a running scheduler that holds, or does not hold, an earlier job of task 1
InitCron ==
    /\ InitExecutor
    /\ runtime_vars = EmptyMap
    /\ apis = EmptyMap
    /\ budget = 0
    /\ _scheduler = 1
    /\ instances \in {<<[running |-> TRUE, jobs |-> j]>> : j \in {EmptyMap, JobId(1) :> 0}}
    /\ scheduled_tasks = <<TaskRow("active", TRUE, <<1>>, FALSE)>>
    /\ runs = <<>>
    /\ starting = <<>>
    /\ timers = 0
    /\ loads = 1
    /\ mails = <<>>
    /\ now = 0
    /\ calls = 0

\* register_task(task) for the active cron task 1 whose cron_expr is parts
register_cron(parts) ==
    /\ fn = Null
    /\ instances' = register_task(instances, 1,
                        [scheduled_tasks[1] EXCEPT !.cron_ok = accepted(cron_fields(parts))])
    /\ fn' = [cron_expr |-> parts, trigger |-> cron_fields(parts),
              ret |-> accepted(cron_fields(parts))]
    /\ UNCHANGED <<_scheduler, scheduled_tasks, runs, starting, timers, loads, mails,
                   now, calls>>
    /\ UNCHANGED <<runtime_vars, session_store, global_vars, apis, reports, results,
                   pc, frame, loc, budget, closed_sessions, load_vars, _batch_tasks>>

NextCron == \E parts \in CronExprs : register_cron(parts)

SpecCron == InitCron /\ [][NextCron]_vars

Registered == JobId(1) \in DOMAIN instances[_scheduler].jobs

\* C37: an active cron task registers a 5-field expression as minute, hour,
\* day, month, day_of_week, has a 6-field expression accepted, and gets
\* 0 9 * * * for every malformed expression: whatever the expression, the
\* task ends up with a registered job.
C37_CronFallback ==
    fn # Null =>
        /\ (WellFormed(fn.cron_expr) /\ Len(fn.cron_expr) = 5)
                => fn.trigger = fn.cron_expr /\ Registered
        /\ (WellFormed(fn.cron_expr) /\ Len(fn.cron_expr) = 6) => Registered
        /\ ~WellFormed(fn.cron_expr) => fn.trigger = CronDefault /\ Registered

\* the fallback is taken for every expression whose number of fields is
\* neither 5 nor 6, and then the job is registered
C37_FallbackOnFieldCount ==
    (fn # Null /\ Len(fn.cron_expr) \notin {5, 6})
        => fn.trigger = CronDefault /\ fn.ret /\ Registered

\* an expression of five fields of which one is no cron field: no
\* fallback, no job, and the job the task had is gone
C37_NoJobForBadField ==
    ~(/\ fn # Null /\ fn.cron_expr = <<"x", "5", "*", "*", "*">>
      /\ fn.trigger = fn.cron_expr /\ ~fn.ret /\ ~Registered)

-----------------------------------------------------------------------------
(* start_locust called again with a task id the registry already holds     *)

\* start_locust(task_id, api_ids) for a known task_id: the files are removed
\* again, a second child is spawned and line 327 overwrites the entry, so the
\* registry holds the new child only; the model allows it once per task id
start_locust_again(task_id, api_ids) ==
    /\ Known(task_id)
    /\ Orphan(task_id) \notin DOMAIN procs
    /\ LET payload == order_by(api_ids)
       IN IF payload = <<>>
          THEN /\ reply' = [op |-> "start", task_id |-> task_id, success |-> FALSE]
               /\ UNCHANGED <<_tasks, procs, work_dir>>
          ELSE \E spawned \in BOOLEAN :
                /\ work_dir' = Put(work_dir, task_id, Files)
                /\ IF spawned
                   THEN /\ _tasks' = Put(_tasks, task_id,
                                         [api_ids |-> api_ids, payload |-> payload])
                        /\ procs' = Put(Put(procs, Orphan(task_id), procs[task_id]),
                                        task_id,
                                        [Worker("boot") EXCEPT !.payload = payload])
                   ELSE UNCHANGED <<_tasks, procs>>
                /\ reply' = [op |-> "start", task_id |-> task_id, success |-> spawned]
    /\ UNCHANGED <<reports, results>>
    /\ LoadFrame

\* the children there can be
ProcIds == LoadIds \cup {Orphan(t) : t \in LoadIds}

\* the worker script of a load whose virtual users get no request through
\* (the statistics play no part here)
IdleLoad(p) ==
    \/ w_begin(p)
    \/ w_import(p)
    \/ w_start(p)
    \/ w_update(p)
    \/ w_stop(p)
    \/ w_open(p)
    \/ w_dump(p)
    \/ w_completed(p)
    \/ w_quit(p)
    \/ w_sigterm(p)

\* api_ids of the starts of this specification
RestartArgs == {<<2>>, <<9>>}

NextRestart ==
    \/ \E task_id \in LoadIds, api_ids \in RestartArgs : start_locust(task_id, api_ids)
    \/ \E task_id \in LoadIds, api_ids \in RestartArgs : start_locust_again(task_id, api_ids)
    \/ \E p \in ProcIds : IdleLoad(p)
    \/ \E task_id \in LoadIds : get_locust_status(task_id)
    \/ \E task_id \in LoadIds : stop_locust(task_id)
    \/ \E task_id \in LoadIds : collect_locust_result(task_id)

SpecRestart == InitLoad /\ [][NextRestart]_vars

\* C38: a worker writes the state completed, and exits with code 0, only
\* after it has written result.json completely; so when get_locust_status
\* answers completed the result file is complete, and a collect of a task
\* whose worker has completed does not fail.
C38_ResultBeforeCompleted ==
    [][/\ \A p \in ProcIds :
            (p \in DOMAIN procs /\ p \in DOMAIN procs' /\ procs'[p].pc # procs[p].pc) =>
                /\ procs'[p].pc = "completed" =>
                        procs[p].pc = "dump" /\ work_dir'[Home(p)].result.t = "list"
                /\ procs'[p].pc = "quit" => procs[p].pc = "completed"
                /\ procs'[p].retcode = Num(0) => procs[p].pc = "quit"
       /\ (reply' # reply /\ reply'.op = "status" /\ reply'.found
                /\ reply'.status = "completed")
                => work_dir'[reply'.task_id].result.t = "list"
       /\ (reply' # reply /\ reply'.op = "collect" /\ reply'.task_id \in DOMAIN procs
                /\ (procs[reply'.task_id].retcode = Num(0)
                    \/ (work_dir[reply'.task_id].status # Null
                        /\ work_dir[reply'.task_id].status.status = "completed")))
                => reply'.success]_vars

\* the part of C38 that is about the script alone: completed is written
\* after the dump of result.json, and the exit with 0 follows it
C38_ScriptOrder ==
    [][\A p \in ProcIds :
            (p \in DOMAIN procs /\ p \in DOMAIN procs' /\ procs'[p].pc # procs[p].pc) =>
                /\ procs'[p].pc = "completed" =>
                        procs[p].pc = "dump" /\ work_dir'[Home(p)].result.t = "list"
                /\ procs'[p].pc = "quit" => procs[p].pc = "completed"
                /\ procs'[p].retcode = Num(0) => procs[p].pc = "quit"]_vars

\* a task that was started twice: the registry's child is alive and has
\* written nothing, status.json says completed, and there is no result.json
C38_CompletedWithoutResult ==
    ~(/\ Known(1) /\ procs[1].retcode = Null
      /\ work_dir[1].status # Null /\ work_dir[1].status.status = "completed"
      /\ work_dir[1].result = Null)

\* C39: after any sequence of start and stop calls every child that has not
\* ended is the one the registry holds for its task id, so that
\* stop(task_id) signals every live child started under task_id, also after
\* two starts with the same id; and the status and result files of a task
\* id hold only what the registry's child wrote: nothing while that child
\* is at the head of the script.
C39_WorkersReachable ==
    /\ \A p \in DOMAIN procs : procs[p].retcode = Null => p \in DOMAIN _tasks
    /\ (reply # Null /\ reply.op = "stop" /\ reply.success) =>
            \A p \in DOMAIN procs :
                (Home(p) = reply.task_id /\ procs[p].retcode = Null) => procs[p].signalled
    /\ \A t \in DOMAIN _tasks :
            procs[t].pc = "boot" =>
                work_dir[t].status = Null /\ work_dir[t].result = Null

\* stop was answered with success while a child of an earlier start with
\* the same task id runs on, unsignalled
C39_OrphanSurvivesStop ==
    ~(/\ reply # Null /\ reply.op = "stop" /\ reply.success /\ reply.task_id = 1
      /\ Orphan(1) \in DOMAIN procs
      /\ procs[Orphan(1)].retcode = Null /\ ~procs[Orphan(1)].signalled
      /\ procs[1].signalled)

(***************************************************************************)
(* Account management: views.account_detail (GET, PUT and DELETE on        *)
(* /accounts/<pk>) behind require_admin, and CoreConfig.ready, which       *)
(* creates the account admin when no account of that name exists.  The     *)
(* User and UserProfile rows of one account are one record; fn holds the   *)
(* table, the next primary key and the answer to the last request.         *)
(***************************************************************************)
MaxAccounts == 2
MinPassword == 6
AdminPk == 1

Name(word) == Str(<<word>>)
Bool(b) == [t |-> "bool", v |-> b]
\* bool(x) of a JSON value that is not None
PyBool(x) == IF x.t = "bool" THEN x.v ELSE ~Falsy(x)

\* User.objects.create_user(...) and UserProfile.objects.create(...)
Account(username, role, display_name) ==
    [username |-> username, role |-> role, display_name |-> display_name,
     is_active |-> TRUE, password |-> Name("hash0")]

BuiltInAdmin == Account(Name("admin"), Name("admin"), Name("manager"))

\* s.strip() of a str
StripStr(x) == Str(strip(x.v, " "))
\* body.get(key, default)
BodyGet(body, key, default) == IF body[key] = Absent THEN default ELSE body[key]

\* the bodies of PUT /accounts/<pk>: the profile fields, or the user fields
PutUsernames == {Absent, Name("admin"), Str(<<" ", "root", " ">>)}
PutPasswords == {Absent, Str(<<"p", "w">>), Str(<<"s", "e", "c", "r", "e", "t">>)}
PutRoles == {Absent, Name("normal"), Name("guest")}
PutDisplayNames == {Absent, Null, Str(<<"ops", " ">>)}
PutActives == {Absent, Null, Bool(FALSE), Bool(TRUE)}
PutBodies ==
    {[username |-> Absent, password |-> Absent, role |-> r, display_name |-> d,
      is_active |-> a] : r \in PutRoles, d \in PutDisplayNames, a \in PutActives}
    \cup {[username |-> u, password |-> p, role |-> Absent, display_name |-> Absent,
           is_active |-> a] : u \in PutUsernames, p \in PutPasswords,
                              a \in {Absent, Bool(FALSE)}}
AccountPks == 1 .. MaxAccounts

\* the table after the first start, or after one more account was created
InitAccounts ==
    /\ InitIdle
    /\ \/ fn = [op |-> "accounts", users |-> (1 :> BuiltInAdmin), next_pk |-> 2,
                reply |-> [op |-> "none"]]
       \/ \E role \in {Name("normal"), Name("admin")} :
             fn = [op |-> "accounts",
                   users |-> (1 :> BuiltInAdmin
                              @@ 2 :> Account(Name("bob"), role, Name("bob"))),
                   next_pk |-> 3,
                   reply |-> [op |-> "none"]]

\* require_admin: the caller is logged in, and its profile has role admin
IsAdmin(users, c) == users[c].is_active /\ users[c].role = Name("admin")
require_admin == \E c \in DOMAIN fn.users : IsAdmin(fn.users, c)

Answer(op, pk, code) == [op |-> op, code |-> code]

\* the guard of the rename: the account is named admin
named_admin(user) == user.username = Name("admin")

\* GET /accounts/<pk>
account_get(pk) ==
    /\ require_admin
    /\ fn' = [fn EXCEPT !.reply = Answer("GET", pk, IF pk \in DOMAIN fn.users THEN 0 ELSE 400)]
    /\ PureFrame

\* PUT /accounts/<pk>: the rows are saved one by one, with no transaction
account_put(pk, body) ==
    /\ require_admin
    /\ IF pk \notin DOMAIN fn.users
       THEN fn' = [fn EXCEPT !.reply = Answer("PUT", pk, 400)]
       ELSE LET user == fn.users[pk]
                new_username == StripStr(BodyGet(body, "username", Str(<<>>)))
                rename == new_username # Str(<<>>) /\ new_username # user.username
                taken == \E o \in DOMAIN fn.users \ {pk} :
                              fn.users[o].username = new_username
                u1 == IF rename THEN [user EXCEPT !.username = new_username] ELSE user
                new_pwd == StripStr(BodyGet(body, "password", Str(<<>>)))
                u2 == IF new_pwd # Str(<<>>) THEN [u1 EXCEPT !.password = new_pwd] ELSE u1
                display_name == BodyGet(body, "display_name", u2.display_name)
                u3 == [u2 EXCEPT !.role = BodyGet(body, "role", u2.role),
                                 !.display_name = StripStr(display_name)]
                is_active == BodyGet(body, "is_active", Null)
                u4 == IF is_active # Null /\ ~named_admin(u3)
                      THEN [u3 EXCEPT !.is_active = PyBool(is_active)] ELSE u3
            IN  IF named_admin(user) /\ body.role = Name("normal")
                THEN fn' = [fn EXCEPT !.reply = Answer("PUT", pk, 400)]
                ELSE IF rename /\ taken
                THEN fn' = [fn EXCEPT !.reply = Answer("PUT", pk, 400)]
                ELSE IF new_pwd # Str(<<>>) /\ Len(new_pwd.v) < MinPassword
                THEN fn' = [fn EXCEPT !.users[pk] = u1, !.reply = Answer("PUT", pk, 400)]
                ELSE IF display_name = Null
                THEN fn' = [fn EXCEPT !.users[pk] = u2, !.reply = Answer("PUT", pk, 500)]
                ELSE fn' = [fn EXCEPT !.users[pk] = u4, !.reply = Answer("PUT", pk, 0)]
    /\ PureFrame

\* DELETE /accounts/<pk>
account_delete(pk) ==
    /\ require_admin
    /\ IF pk \notin DOMAIN fn.users \/ named_admin(fn.users[pk])
       THEN fn' = [fn EXCEPT !.reply = Answer("DELETE", pk, 400)]
       ELSE fn' = [fn EXCEPT !.users = [o \in DOMAIN fn.users \ {pk} |-> fn.users[o]],
                             !.reply = Answer("DELETE", pk, 0)]
    /\ PureFrame

\* CoreConfig.ready in the serving process: a restart of the server
ready ==
    /\ fn.next_pk <= MaxAccounts
    /\ ~\E o \in DOMAIN fn.users : fn.users[o].username = Name("admin")
    /\ fn' = [fn EXCEPT !.users = fn.next_pk :> BuiltInAdmin @@ fn.users,
                        !.next_pk = @ + 1,
                        !.reply = [op |-> "ready"]]
    /\ PureFrame

NextAccounts ==
    \/ \E pk \in AccountPks : account_get(pk)
    \/ \E pk \in AccountPks, body \in PutBodies : account_put(pk, body)
    \/ \E pk \in AccountPks : account_delete(pk)
    \/ ready

SpecAccounts == InitAccounts /\ [][NextAccounts]_vars

\* C40: after any sequence of PUT and DELETE requests on accounts, the
\* account that was created as admin (the first row) still exists, is
\* active and has role admin
C40_AdminKept ==
    fn.op = "accounts" =>
        /\ AdminPk \in DOMAIN fn.users
        /\ fn.users[AdminPk].is_active
        /\ fn.users[AdminPk].role = Name("admin")

\* what the code does keep: an account that is named admin when the request
\* arrives is not deleted, and an account that is named admin after the
\* rename of the request keeps its is_active
C40_NamedAdminKept ==
    [][\A pk \in AccountPks :
          (pk \in DOMAIN fn.users /\ named_admin(fn.users[pk])) =>
              /\ pk \in DOMAIN fn'.users
              /\ named_admin(fn'.users[pk]) => fn'.users[pk].is_active = fn.users[pk].is_active
              /\ fn'.users[pk].role # Name("normal") \/ fn.users[pk].role = Name("normal")]_vars

\* the built-in account was renamed and then deleted
C40_AdminDeleted == fn.op = "accounts" /\ AdminPk \notin DOMAIN fn.users
\* the built-in account lost its role while it was still named admin
C40_AdminDemoted ==
    /\ fn.op = "accounts" /\ AdminPk \in DOMAIN fn.users
    /\ fn.users[AdminPk].username = Name("admin")
    /\ fn.users[AdminPk].role = Name("guest")
\* the built-in account was renamed and deactivated
C40_AdminDeactivated ==
    /\ fn.op = "accounts" /\ AdminPk \in DOMAIN fn.users
    /\ ~fn.users[AdminPk].is_active

=============================================================================
